---- MODULE Spec2Model ----
(***************************************************************************)
(* A model of claude-metrics: the SQLite metrics store, its audit log and  *)
(* the repository query (storage.py), the                                  *)
(* JSONL line parser, conversation assembler and directory scan            *)
(* (scanner.py), the loop of the scan command (cli.py) and the pattern     *)
(* detector (patterns.py).                                                 *)
(*                                                                         *)
(* Tables hold the content columns only.  The autoincrement id of a        *)
(* pattern row is its position in the sequence `patterns` (rowid order);   *)
(* created_at / updated_at are left out.  Times are integer minutes.       *)
(***************************************************************************)
EXTENDS Integers, Sequences, FiniteSets, TLC

VARIABLES
    conversations,       \* table conversations: a set of rows
    patterns,            \* table patterns: rows in rowid order
    repository_metrics,  \* table repository_metrics: a set of rows
    lastOutcome,         \* history: "none", "ok" or "failed" (last store call)
    lastCall,            \* history: arguments of the last committed store call
    lastStored,          \* history: session_id -> the call last committed for it
    repeated,            \* history: the last committed call repeated the one before
    dirty,               \* history: the failed call had changed rows before failing
    fresh,               \* history: only new sessions of one repository so far
    freshRepo,           \* history: that repository ("" before the first call)
    nStored,             \* history: number of committed calls while fresh
    errSum,              \* history: error_detection match_count total while fresh
    calls,               \* history: number of store calls made so far
    wstate,              \* writer -> "idle", "running", "done" or "failed"
    wcall,               \* writer -> the (conversation, matches) of its call
    wstep,               \* writer -> statements its transaction has run
    wtx,                 \* writer -> the database as its connection sees it
    lock,                \* the writer holding the database write lock, or "none"
    obs,                 \* what the reader's last query saw (history)
    overlap,             \* history: the calls of both writers ran at the same time
    file,                \* the lines of the log file being parsed
    pos,                 \* number of lines of the file consumed
    messages,            \* the messages parsed from the file so far
    parsed,              \* what the last from_jsonl_line call did
    pstate,              \* "reading", "assembled", "empty", "raised", "skipped"
    conv,                \* the Conversation assembled from the file, if any
    root,                \* scan: the log files under the projects directory
    exists,              \* scan: whether the projects directory exists
    since,               \* scan: the time-window expression, as characters
    repository_filter,   \* scan: the repository filter (NoFilter if none)
    scanned,             \* scan: <<>> before the call, then <<its outcome>>
    run,                 \* scan command: the conversations of the run, in order
    ridx,                \* scan command: conversations handled so far
    processed,           \* scan command: the counter `processed`
    repositories,        \* scan command: the set `repositories`
    outcomes,            \* history: per conversation handled, what happened
    scan_history,        \* table scan_history: rows in insertion order
    rstate,              \* scan command: "scan", "loop", "done", "nothing" or "error"
    custom,              \* detector: <<>>, or <<cfg>> once load_custom_patterns(cfg) ran
    subject,             \* detector: the log file detection runs on
    table,               \* detector: self.patterns, categories in dict order
    detected,            \* detector: <<>> before detection, then <<its outcome>>
    answer               \* query: <<>>, or <<what the last get_repository_metrics call returned>>

storeVars == <<conversations, patterns, repository_metrics>>
histVars == <<lastOutcome, lastCall, lastStored, repeated, dirty,
              fresh, freshRepo, nStored, errSum, calls>>
concVars == <<wstate, wcall, wstep, wtx, lock, obs, overlap>>
parseVars == <<file, pos, messages, parsed, pstate, conv>>
scanVars == <<root, exists, since, repository_filter, scanned>>
runVars == <<run, ridx, processed, repositories, outcomes, scan_history, rstate>>
detVars == <<custom, subject, table, detected>>
queryVars == <<answer>>
extVars == <<scanVars, runVars, detVars, queryVars>>
vars == <<storeVars, histVars, concVars, parseVars, extVars>>

(***************************************************************************)
(* Bounds and input sets                                                   *)
(***************************************************************************)
MaxCalls == 2
MaxMatches == 2
MaxLines == 2

Sessions == {"s1", "s2"}
NoPath == <<>>
Paths == {NoPath, <<"repo", "foo">>}
NoBranch == "NULL"
NoTime == 0
NoCall == <<>>
Writers == {"w1", "w2"}

(***************************************************************************)
(* scanner.py: Conversation                                                *)
(***************************************************************************)
repository_name(c) ==
    IF c.repository_path = NoPath
    THEN "unknown"
    ELSE c.repository_path[Len(c.repository_path)]

duration_minutes(c) == c.end_time - c.start_time

\* the branch, time range and message count of the conversations stored
Shapes ==
    { [git_branch |-> NoBranch, start_time |-> 1, end_time |-> 1, message_count |-> 1],
      [git_branch |-> "main", start_time |-> 2, end_time |-> 3, message_count |-> 2] }

Conversation(sid, path, shape) ==
    [session_id |-> sid, repository_path |-> path,
     git_branch |-> shape.git_branch, start_time |-> shape.start_time,
     end_time |-> shape.end_time, message_count |-> shape.message_count]

ConversationInputs ==
    { Conversation(sid, path, shape) :
        sid \in Sessions, path \in Paths, shape \in Shapes }

(***************************************************************************)
(* patterns.py: PatternMatch, ConversationPatterns                         *)
(***************************************************************************)
PatternMatch(name, category, weight, count, role, sample) ==
    [pattern_name |-> name, pattern_category |-> category, weight |-> weight,
     match_count |-> count, message_type |-> role, sample_text |-> sample]

\* matches in the order detect_patterns emits them: per pattern of the
\* table, the user text first and the assistant text second
MatchOrder ==
    << PatternMatch("build_errors", "error_detection", 85, 1, "user", "build failed"),
       PatternMatch("build_errors", "error_detection", 85, 2, "assistant", "build failed"),
       PatternMatch("git_operations", "tool_usage", 50, 1, "assistant", "git push") >>

\* the elements of q at the indices I, in order
RECURSIVE Pick(_, _)
Pick(q, I) ==
    IF I = {}
    THEN <<>>
    ELSE LET i == CHOOSE j \in I : \A k \in I : k <= j
         IN  Append(Pick(q, I \ {i}), q[i])

\* the match lists stored: at most MaxMatches of the matches, in that order
MatchInputs ==
    { Pick(MatchOrder, I) :
        I \in {J \in SUBSET (DOMAIN MatchOrder) : Cardinality(J) <= MaxMatches} }

(***************************************************************************)
(* storage.py: rows and SQL statements of store_conversation_metrics.      *)
(* A database value d is a record of the three tables.                     *)
(***************************************************************************)
DB == [conversations |-> conversations, patterns |-> patterns,
       repository_metrics |-> repository_metrics]

EmptyDB == [conversations |-> {}, patterns |-> <<>>, repository_metrics |-> {}]

ConvRow(c) ==
    [session_id |-> c.session_id, repository_path |-> c.repository_path,
     repository_name |-> repository_name(c), git_branch |-> c.git_branch,
     start_time |-> c.start_time, end_time |-> c.end_time,
     duration_minutes |-> duration_minutes(c),
     message_count |-> c.message_count]

PatternRow(sid, p) ==
    [session_id |-> sid, pattern_name |-> p.pattern_name,
     pattern_category |-> p.pattern_category, weight |-> p.weight,
     match_count |-> p.match_count, message_type |-> p.message_type,
     sample_text |-> p.sample_text]

\* faulty variant: INSERT OR IGNORE: an existing row of the session is kept
InsertOrIgnoreConversation(d, c) ==
    IF \E r \in d.conversations : r.session_id = c.session_id
    THEN d
    ELSE [d EXCEPT !.conversations = @ \cup {ConvRow(c)}]

\* INSERT OR REPLACE INTO conversations: session_id is the primary key
InsertOrReplaceConversation(d, c) ==
    [d EXCEPT !.conversations =
        {r \in @ : r.session_id # c.session_id} \cup {ConvRow(c)}]

\* faulty variant: the DELETE is missing
DeletePatternsNone(d, sid) == d

\* DELETE FROM patterns WHERE session_id = ?
DeletePatterns(d, sid) ==
    [d EXCEPT !.patterns = SelectSeq(@, LAMBDA r : r.session_id # sid)]

\* faulty variant: the row is inserted without the conversation's session_id
InsertPatternNoSession(d, sid, p) ==
    [d EXCEPT !.patterns = Append(@, PatternRow("", p))]

\* INSERT INTO patterns, one match
InsertPattern(d, sid, p) ==
    [d EXCEPT !.patterns = Append(@, PatternRow(sid, p))]

(***************************************************************************)
(* storage.py: _update_repository_metrics                                  *)
(***************************************************************************)
\* SUM(message_count) over a set of conversation rows
RECURSIVE SumMessageCount(_)
SumMessageCount(S) ==
    IF S = {}
    THEN 0
    ELSE LET x == CHOOSE y \in S : TRUE
         IN  x.message_count + SumMessageCount(S \ {x})

\* faulty variant: COUNT(*) in place of SUM(match_count)
CountMatchRows(d, J) == Cardinality(J)

\* SUM(match_count) over a set J of joined (pattern rowid, conversation) pairs
RECURSIVE SumMatchCount(_, _)
SumMatchCount(d, J) ==
    IF J = {}
    THEN 0
    ELSE LET x == CHOOSE y \in J : TRUE
         IN  d.patterns[x[1]].match_count + SumMatchCount(d, J \ {x})

MaxOver(S) == CHOOSE x \in S : \A y \in S : y <= x

\* FROM conversations WHERE repository_name = ?
RepoConversations(d, repo) ==
    {r \in d.conversations : r.repository_name = repo}

\* FROM patterns p JOIN conversations c ON p.session_id = c.session_id
\* WHERE c.repository_name = ?   (pairs of a pattern rowid and a conversation row)
JoinedPatterns(d, repo) ==
    { pc \in (DOMAIN d.patterns) \X RepoConversations(d, repo) :
        d.patterns[pc[1]].session_id = pc[2].session_id }

\* SUM(match_count) ... GROUP BY pattern_category, as the dict pattern_counts
PatternCounts(d, repo) ==
    LET J == JoinedPatterns(d, repo)
        cats == { d.patterns[pc[1]].pattern_category : pc \in J }
    IN  [cat \in cats |->
            SumMatchCount(d, {pc \in J : d.patterns[pc[1]].pattern_category = cat})]

\* pattern_counts.get(category, 0)
CountOf(counts, category) ==
    IF category \in DOMAIN counts THEN counts[category] ELSE 0

\* SUM(match_count) ... GROUP BY pattern_name, pattern_category, as the
\* nested dict pattern_details: category -> pattern_name -> total
PatternDetails(d, repo) ==
    LET J == JoinedPatterns(d, repo)
        cats == { d.patterns[pc[1]].pattern_category : pc \in J }
        names(cat) == { d.patterns[pc[1]].pattern_name :
                          pc \in {q \in J : d.patterns[q[1]].pattern_category = cat} }
    IN  [cat \in cats |->
            [n \in names(cat) |->
                SumMatchCount(d, {pc \in J :
                                    /\ d.patterns[pc[1]].pattern_category = cat
                                    /\ d.patterns[pc[1]].pattern_name = n})]]

\* faulty variant: COUNT(DISTINCT git_branch) in place of COUNT(*)
RollupRowCountsBranches(d, repo) ==
    LET convs == RepoConversations(d, repo)
        counts == PatternCounts(d, repo)
    IN  [repository_name |-> repo,
         conversation_count |-> Cardinality({r.git_branch : r \in convs}),
         total_messages |-> SumMessageCount(convs),
         error_count |-> CountOf(counts, "error_detection"),
         tool_usage_count |-> CountOf(counts, "tool_usage"),
         last_activity |-> IF convs = {} THEN NoTime
                           ELSE MaxOver({r.end_time : r \in convs}),
         pattern_summary |-> PatternDetails(d, repo)]

\* the row that _update_repository_metrics computes for repo
RollupRow(d, repo) ==
    LET convs == RepoConversations(d, repo)
        counts == PatternCounts(d, repo)
    IN  [repository_name |-> repo,
         conversation_count |-> Cardinality(convs),
         total_messages |-> SumMessageCount(convs),
         error_count |-> CountOf(counts, "error_detection"),
         tool_usage_count |-> CountOf(counts, "tool_usage"),
         last_activity |-> IF convs = {} THEN NoTime
                           ELSE MaxOver({r.end_time : r \in convs}),
         pattern_summary |-> PatternDetails(d, repo)]

\* faulty variant: the rollup row is adjusted in place: conversation_count + 1
UpdateRepositoryMetricsIncrement(d, repo) ==
    LET old == {r \in d.repository_metrics : r.repository_name = repo}
        n == IF old = {} THEN 0 ELSE (CHOOSE r \in old : TRUE).conversation_count
    IN  [d EXCEPT !.repository_metrics =
            {r \in @ : r.repository_name # repo} \cup
            {[RollupRow(d, repo) EXCEPT !.conversation_count = n + 1]}]

\* INSERT OR REPLACE INTO repository_metrics: repository_name is the primary key
UpdateRepositoryMetrics(d, repo) ==
    [d EXCEPT !.repository_metrics =
        {r \in @ : r.repository_name # repo} \cup {RollupRow(d, repo)}]

(***************************************************************************)
(* storage.py: store_conversation_metrics.  The statements run in one      *)
(* transaction (with sqlite3.connect(...) as conn): the connection's       *)
(* context manager commits when the block ends and rolls back when a       *)
(* statement raises.                                                       *)
(***************************************************************************)
\* number of statements of a call with matches m: the conversation row, the
\* delete, one insert per match, the rollup
Statements(m) == Len(m) + 3

\* faulty variant: the DELETE has no WHERE clause
StatementDeletesAll(d, c, m, k) ==
    IF k = 1 THEN InsertOrReplaceConversation(d, c)
    ELSE IF k = 2 THEN [d EXCEPT !.patterns = <<>>]
    ELSE IF k <= Len(m) + 2 THEN InsertPattern(d, c.session_id, m[k - 2])
    ELSE UpdateRepositoryMetrics(d, repository_name(c))

\* the k-th statement of the call, run on the working state d
Statement(d, c, m, k) ==
    IF k = 1 THEN InsertOrReplaceConversation(d, c)
    ELSE IF k = 2 THEN DeletePatterns(d, c.session_id)
    ELSE IF k <= Len(m) + 2 THEN InsertPattern(d, c.session_id, m[k - 2])
    ELSE UpdateRepositoryMetrics(d, repository_name(c))

\* the working state after the first k statements of the call
RECURSIVE AfterStatements(_, _, _, _)
AfterStatements(d, c, m, k) ==
    IF k = 0
    THEN d
    ELSE Statement(AfterStatements(d, c, m, k - 1), c, m, k)

\* conn.__exit__ without an exception: COMMIT
Commit(committed, working) == working

\* faulty variant: no rollback: the statements already run stay in the tables
RollbackKeepsWork(committed, working) == working

\* conn.__exit__ with an exception: ROLLBACK
Rollback(committed, working) == committed

(***************************************************************************)
(* The store as a state machine: one action per call of                   *)
(* store_conversation_metrics, committed or failed at its k-th statement.  *)
(***************************************************************************)
ErrorCount(m) ==
    LET idx == {i \in DOMAIN m : m[i].pattern_category = "error_detection"}
        RECURSIVE Total(_)
        Total(I) == IF I = {} THEN 0
                    ELSE LET i == CHOOSE j \in I : TRUE
                         IN  m[i].match_count + Total(I \ {i})
    IN  Total(idx)

InitStore ==
    /\ conversations = {}
    /\ patterns = <<>>
    /\ repository_metrics = {}

InitHist ==
    /\ lastOutcome = "none"
    /\ lastCall = NoCall
    /\ lastStored = [s \in Sessions |-> <<>>]
    /\ repeated = FALSE
    /\ dirty = FALSE
    /\ fresh = TRUE
    /\ freshRepo = ""
    /\ nStored = 0
    /\ errSum = 0
    /\ calls = 0

InitConc ==
    /\ wstate = [w \in Writers |-> "idle"]
    /\ wcall = [w \in Writers |-> NoCall]
    /\ wstep = [w \in Writers |-> 0]
    /\ wtx = [w \in Writers |-> EmptyDB]
    /\ lock = "none"
    /\ obs = <<>>
    /\ overlap = FALSE

\* no log file is being parsed
InitNoFile ==
    /\ file = <<>>
    /\ pos = 0
    /\ messages = <<>>
    /\ parsed = <<>>
    /\ pstate = "reading"
    /\ conv = <<>>

\* no scan is made
InitNoScan ==
    /\ root = <<>>
    /\ exists = TRUE
    /\ since = <<>>
    /\ repository_filter = <<>>
    /\ scanned = <<>>

\* no scan command runs
InitNoRun ==
    /\ run = <<>>
    /\ ridx = 0
    /\ processed = 0
    /\ repositories = {}
    /\ outcomes = <<>>
    /\ scan_history = <<>>
    /\ rstate = "loop"

\* no detection is made
InitNoDetect ==
    /\ custom = <<>>
    /\ subject = <<>>
    /\ table = <<>>
    /\ detected = <<>>

\* no query is made
InitNoQuery == answer = <<>>

Init ==
    /\ InitStore /\ InitHist /\ InitConc /\ InitNoFile
    /\ InitNoScan /\ InitNoRun /\ InitNoDetect /\ InitNoQuery

SetDB(d) ==
    /\ conversations' = d.conversations
    /\ patterns' = d.patterns
    /\ repository_metrics' = d.repository_metrics

\* store_conversation_metrics(c, m) runs to the end of the with block
Store(c, m) ==
    LET working == AfterStatements(DB, c, m, Statements(m))
        stillFresh == /\ fresh
                      /\ lastStored[c.session_id] = <<>>
                      /\ freshRepo \in {"", repository_name(c)}
    IN  /\ calls < MaxCalls
        /\ calls' = calls + 1
        /\ SetDB(Commit(DB, working))
        /\ lastOutcome' = "ok"
        /\ lastCall' = <<c, m>>
        /\ lastStored' = [lastStored EXCEPT ![c.session_id] = <<c, m>>]
        /\ repeated' = (lastOutcome = "ok" /\ lastCall = <<c, m>>)
        /\ dirty' = FALSE
        /\ fresh' = stillFresh
        /\ freshRepo' = IF stillFresh THEN repository_name(c) ELSE ""
        /\ nStored' = IF stillFresh THEN nStored + 1 ELSE 0
        /\ errSum' = IF stillFresh THEN errSum + ErrorCount(m) ELSE 0
        /\ UNCHANGED <<concVars, parseVars>>
        /\ UNCHANGED extVars

\* store_conversation_metrics(c, m) whose k-th statement raises
StoreFails(c, m, k) ==
    LET working == AfterStatements(DB, c, m, k - 1)
    IN  /\ calls < MaxCalls
        /\ calls' = calls + 1
        /\ SetDB(Rollback(DB, working))
        /\ lastOutcome' = "failed"
        /\ lastCall' = NoCall
        /\ repeated' = FALSE
        /\ dirty' = (working # DB)
        /\ UNCHANGED <<lastStored, fresh, freshRepo, nStored, errSum>>
        /\ UNCHANGED <<concVars, parseVars>>
        /\ UNCHANGED extVars

StoreOk == \E c \in ConversationInputs, m \in MatchInputs : Store(c, m)

StoreError ==
    \E c \in ConversationInputs, m \in MatchInputs :
        \E k \in 1..Statements(m) : StoreFails(c, m, k)

Next == StoreOk \/ StoreError

Spec == Init /\ [][Next]_vars

(***************************************************************************)
(* Concurrent connections.  Every call of a LocalStorage method opens its  *)
(* own connection (sqlite3.connect).  A transaction's first write          *)
(* statement takes the database write lock, which one connection holds at  *)
(* a time; a connection that cannot get it within the busy timeout raises  *)
(* (database is locked).  The statements of an open transaction change     *)
(* only what that connection sees, until COMMIT.                           *)
(***************************************************************************)
\* the multiset of the elements of a sequence
BagOfSeq(q) ==
    [x \in {q[i] : i \in DOMAIN q} |-> Cardinality({i \in DOMAIN q : q[i] = x})]

\* the conversations and matches written by the concurrent writers
ConcConversations ==
    { Conversation(sid, path, shape) :
        sid \in Sessions, path \in Paths,
        shape \in {sh \in Shapes : sh.git_branch = "main"} }

ConcMatches ==
    { m \in MatchInputs :
        /\ Len(m) <= 2
        /\ \A i \in DOMAIN m : m[i].message_type = "assistant"
        /\ m # <<>> => m[1].pattern_category = "error_detection" }

\* faulty variant: no write lock: a transaction starts whatever the others do
LockFreeAlways(holder, w) == TRUE

\* the first write statement of w's transaction can take the write lock
LockFree(holder, w) == holder \in {"none", w}

\* faulty variant: read uncommitted: a query sees the open transaction's rows
ReaderViewDirty(committed, inflight) == inflight

\* a query on its own connection sees the committed database
ReaderView(committed, inflight) == committed

\* the database as the connection holding the write lock sees it
Inflight == IF lock = "none" THEN DB ELSE wtx[lock]

\* store_conversation_metrics(c, m) is called on writer w
WBegin(w, c, m) ==
    /\ wstate[w] = "idle"
    /\ calls < MaxCalls
    /\ calls' = calls + 1
    /\ wstate' = [wstate EXCEPT ![w] = "running"]
    /\ wcall' = [wcall EXCEPT ![w] = <<c, m>>]
    /\ wstep' = [wstep EXCEPT ![w] = 0]
    /\ overlap' = (\E v \in Writers \ {w} : wstate[v] = "running")
    /\ UNCHANGED <<storeVars, wtx, lock, obs, parseVars>>
    /\ UNCHANGED extVars
    /\ UNCHANGED <<lastOutcome, lastCall, lastStored, repeated, dirty,
                   fresh, freshRepo, nStored, errSum>>

\* writer w runs the next statement of its call
WStatement(w) ==
    /\ wstate[w] = "running"
    /\ wstep[w] < Statements(wcall[w][2])
    /\ wstep[w] = 0 => LockFree(lock, w)
    /\ LET seen == IF wstep[w] = 0 THEN DB ELSE wtx[w]
       IN  wtx' = [wtx EXCEPT ![w] =
                      Statement(seen, wcall[w][1], wcall[w][2], wstep[w] + 1)]
    /\ wstep' = [wstep EXCEPT ![w] = @ + 1]
    /\ lock' = w
    /\ UNCHANGED <<storeVars, histVars, wstate, wcall, obs, overlap, parseVars>>
    /\ UNCHANGED extVars

\* writer w cannot take the write lock within the busy timeout: the call raises
WBusy(w) ==
    /\ wstate[w] = "running"
    /\ wstep[w] = 0
    /\ lock \notin {"none", w}
    /\ wstate' = [wstate EXCEPT ![w] = "failed"]
    /\ UNCHANGED <<storeVars, histVars, wcall, wstep, wtx, lock, obs, overlap, parseVars>>
    /\ UNCHANGED extVars

\* the next statement of writer w raises: the transaction is rolled back
WRaise(w) ==
    /\ wstate[w] = "running"
    /\ wstep[w] >= 1
    /\ wstep[w] < Statements(wcall[w][2])
    /\ SetDB(Rollback(DB, wtx[w]))
    /\ wstate' = [wstate EXCEPT ![w] = "failed"]
    /\ wtx' = [wtx EXCEPT ![w] = EmptyDB]
    /\ lock' = IF lock = w THEN "none" ELSE lock
    /\ UNCHANGED <<histVars, wcall, wstep, obs, overlap, parseVars>>
    /\ UNCHANGED extVars

\* the with block of writer w ends: COMMIT
WCommit(w) ==
    /\ wstate[w] = "running"
    /\ wstep[w] = Statements(wcall[w][2])
    /\ SetDB(Commit(DB, wtx[w]))
    /\ wstate' = [wstate EXCEPT ![w] = "done"]
    /\ wtx' = [wtx EXCEPT ![w] = EmptyDB]
    /\ lock' = IF lock = w THEN "none" ELSE lock
    /\ lastOutcome' = "ok"
    /\ lastCall' = wcall[w]
    /\ lastStored' = [lastStored EXCEPT ![wcall[w][1].session_id] = wcall[w]]
    /\ UNCHANGED <<repeated, dirty, fresh, freshRepo, nStored, errSum, calls>>
    /\ UNCHANGED <<wcall, wstep, obs, overlap, parseVars>>
    /\ UNCHANGED extVars

\* the call of writer w has returned or raised; w is free for another call
WReturn(w) ==
    /\ wstate[w] \in {"done", "failed"}
    /\ wstate' = [wstate EXCEPT ![w] = "idle"]
    /\ wcall' = [wcall EXCEPT ![w] = NoCall]
    /\ wstep' = [wstep EXCEPT ![w] = 0]
    /\ overlap' = FALSE
    /\ UNCHANGED <<storeVars, histVars, wtx, lock, obs, parseVars>>
    /\ UNCHANGED extVars

\* the view a query returned is the database as the committed calls left it:
\* each session has exactly the pattern rows of its last committed call, and
\* the repository of the last committed call has its recomputed rollup row
CommittedView(view) ==
    /\ \A s \in Sessions :
          LET rows == SelectSeq(view.patterns, LAMBDA r : r.session_id = s)
              m == IF lastStored[s] = NoCall THEN <<>> ELSE lastStored[s][2]
          IN  BagOfSeq(rows) = BagOfSeq([i \in DOMAIN m |-> PatternRow(s, m[i])])
    /\ lastCall # NoCall =>
          LET repo == repository_name(lastCall[1])
          IN  /\ \E r \in view.repository_metrics : r.repository_name = repo
              /\ \A r \in view.repository_metrics :
                    r.repository_name = repo => r = RollupRow(view, repo)

\* a read query (get_repository_metrics, get_conversation_history,
\* get_pattern_trends: one SELECT each) on the reader's own connection;
\* obs records whether it saw a committed view, and whether a transaction
\* that had changed rows was open when it ran
Read ==
    /\ obs' = << [committed |-> CommittedView(ReaderView(DB, Inflight)),
                  during |-> Inflight # DB] >>
    /\ obs' # obs
    /\ UNCHANGED <<storeVars, histVars, wstate, wcall, wstep, wtx, lock, overlap, parseVars>>
    /\ UNCHANGED extVars

ConcBegin == \E w \in Writers, c \in ConcConversations, m \in ConcMatches : WBegin(w, c, m)
ConcStatement == \E w \in Writers : WStatement(w)
ConcBusy == \E w \in Writers : WBusy(w)
ConcRaise == \E w \in Writers : WRaise(w)
ConcCommit == \E w \in Writers : WCommit(w)
ConcReturn == \E w \in Writers : WReturn(w)

NextConc ==
    \/ ConcBegin
    \/ ConcStatement
    \/ ConcBusy
    \/ ConcRaise
    \/ ConcCommit
    \/ ConcReturn
    \/ Read

SpecConc == Init /\ [][NextConc]_vars

(***************************************************************************)
(* scanner.py: ConversationMessage.from_jsonl_line.  A line is described   *)
(* by what json.loads makes of it and by the fields of the record.         *)
(*   shape: "blank" (whitespace only), "undecodable" (not JSON),           *)
(*          "nonrecord" (JSON list, number, string or null), "record"      *)
(*   ts:    the "timestamp" field: kind "aware" (ISO-8601 with Z or an     *)
(*          offset), "naive" (ISO-8601 without one) or "bad" (absent, not  *)
(*          text or not ISO-8601), and its time t                          *)
(*   msg:   the "message" field: "text" (a record whose content is text),  *)
(*          "list" (a record whose content is a list), "nonrecord" (not a  *)
(*          record), "missing" (absent)                                    *)
(***************************************************************************)
Line(shape, sid, ts, type, msg, content, cwd, branch) ==
    [shape |-> shape, sessionId |-> sid, ts |-> ts, type |-> type,
     msg |-> msg, content |-> content, cwd |-> cwd, gitBranch |-> branch]

Aware(t) == [kind |-> "aware", t |-> t]
Naive(t) == [kind |-> "naive", t |-> t]
BadTime == [kind |-> "bad", t |-> 0]

BlankLine == Line("blank", "", BadTime, "", "missing", "", NoPath, NoBranch)
GarbageLine == Line("undecodable", "", BadTime, "", "missing", "", NoPath, NoBranch)
ListLine == Line("nonrecord", "", BadTime, "", "missing", "", NoPath, NoBranch)

LineInputs ==
    { BlankLine, GarbageLine, ListLine,
      Line("record", "s1", Aware(1), "user", "text", "please fix", NoPath, NoBranch),
      Line("record", "s1", Aware(2), "assistant", "text", "build failed",
           <<"repo", "foo">>, "main"),
      Line("record", "s1", BadTime, "user", "text", "please fix",
           <<"repo", "foo">>, NoBranch),
      Line("record", "s2", Naive(1), "assistant", "missing", "", NoPath, "main"),
      Line("record", "s1", Aware(2), "assistant", "list", "", <<"repo", "foo">>, "main"),
      Line("record", "s1", Aware(1), "user", "nonrecord", "", NoPath, NoBranch),
      Line("record", "s2", Aware(3), "user", "text", "thanks", <<"repo", "bar">>, "dev") }

Files == UNION { [1..n -> LineInputs] : n \in 0..MaxLines }

\* the values datetime.now() returns while a file is parsed
Clock == {2, 3}

ConversationMessage(sid, timestamp, type, content, cwd, branch) ==
    [session_id |-> sid, timestamp |-> timestamp, message_type |-> type,
     content |-> content, cwd |-> cwd, git_branch |-> branch]

\* datetime.fromisoformat(...), or datetime.now() on ValueError / AttributeError
ParseTimestamp(ts, now) ==
    IF ts.kind = "bad"
    THEN [t |-> now, aware |-> FALSE]
    ELSE [t |-> ts.t, aware |-> (ts.kind = "aware")]

\* the exceptions the except clause of from_jsonl_line catches
Caught == {"JSONDecodeError", "KeyError", "TypeError"}

\* the result of from_jsonl_line: <<"message", m>>, <<"none">> (None is
\* returned) or <<"raise", e>> (exception e leaves the method)
Outcome(exc) == IF exc \in Caught THEN <<"none">> ELSE <<"raise", exc>>

from_jsonl_line(line, now) ==
    IF line.shape = "undecodable" THEN Outcome("JSONDecodeError")
    ELSE IF line.shape = "nonrecord" THEN Outcome("AttributeError")
    ELSE IF line.msg = "nonrecord" THEN Outcome("AttributeError")
    ELSE IF line.msg = "list" THEN Outcome("ValidationError")
    ELSE <<"message",
           ConversationMessage(line.sessionId, ParseTimestamp(line.ts, now),
                               line.type,
                               IF line.msg = "missing" THEN "" ELSE line.content,
                               line.cwd, line.gitBranch)>>

(***************************************************************************)
(* scanner.py: ConversationScanner._parse_conversation_file                *)
(***************************************************************************)
\* min / max over timestamps: comparing an offset-aware with an offset-naive
\* datetime raises TypeError
Comparable(msgs) ==
    \A i, j \in DOMAIN msgs : msgs[i].timestamp.aware = msgs[j].timestamp.aware

MinTimestamp(msgs) ==
    msgs[CHOOSE i \in DOMAIN msgs :
            \A j \in DOMAIN msgs : msgs[i].timestamp.t <= msgs[j].timestamp.t].timestamp

MaxTimestamp(msgs) ==
    msgs[CHOOSE i \in DOMAIN msgs :
            \A j \in DOMAIN msgs : msgs[j].timestamp.t <= msgs[i].timestamp.t].timestamp

\* faulty variant: a later message's cwd replaces an earlier one
LastCwd(msgs) ==
    LET I == {i \in DOMAIN msgs : msgs[i].cwd # NoPath}
    IN  IF I = {} THEN NoPath
        ELSE msgs[CHOOSE i \in I : \A j \in I : j <= i].cwd

\* the first message in file order with a non-empty cwd / gitBranch
FirstCwd(msgs) ==
    LET I == {i \in DOMAIN msgs : msgs[i].cwd # NoPath}
    IN  IF I = {} THEN NoPath
        ELSE msgs[CHOOSE i \in I : \A j \in I : i <= j].cwd

FirstBranch(msgs) ==
    LET I == {i \in DOMAIN msgs : msgs[i].git_branch # NoBranch}
    IN  IF I = {} THEN NoBranch
        ELSE msgs[CHOOSE i \in I : \A j \in I : i <= j].git_branch

\* what follows the reading loop: <<"none">>, <<"raise", e>> or
\* <<"conversation", c>>
Assemble(msgs) ==
    IF msgs = <<>> THEN <<"none">>
    ELSE IF ~Comparable(msgs) THEN <<"raise", "TypeError">>
    ELSE <<"conversation",
           [session_id |-> msgs[1].session_id,
            repository_path |-> FirstCwd(msgs),
            git_branch |-> FirstBranch(msgs),
            start_time |-> MinTimestamp(msgs),
            end_time |-> MaxTimestamp(msgs),
            message_count |-> Len(msgs),
            messages |-> msgs]>>

InitParse ==
    /\ InitStore /\ InitHist /\ InitConc
    /\ InitNoScan /\ InitNoRun /\ InitNoDetect /\ InitNoQuery
    /\ file \in Files
    /\ pos = 0
    /\ messages = <<>>
    /\ parsed = <<>>
    /\ pstate = "reading"
    /\ conv = <<>>

\* one turn of the loop `for line in f`
ReadLine ==
    /\ pstate = "reading"
    /\ pos < Len(file)
    /\ pos' = pos + 1
    /\ LET line == file[pos + 1]
       IN  IF line.shape = "blank"
           THEN UNCHANGED <<messages, parsed, pstate>>
           ELSE \E now \in Clock :
                  LET r == from_jsonl_line(line, now)
                  IN  /\ parsed' = <<r[1]>>
                      /\ messages' = IF r[1] = "message"
                                     THEN Append(messages, r[2])
                                     ELSE messages
                      /\ pstate' = IF r[1] = "raise" THEN "raised" ELSE "reading"
    /\ UNCHANGED <<storeVars, histVars, concVars, file, conv>>
    /\ UNCHANGED extVars

\* the end of the file is reached: the conversation is built
EndOfFile ==
    /\ pstate = "reading"
    /\ pos = Len(file)
    /\ LET r == Assemble(messages)
       IN  /\ pstate' = IF r[1] = "conversation" THEN "assembled"
                        ELSE IF r[1] = "none" THEN "empty"
                        ELSE "raised"
           /\ conv' = IF r[1] = "conversation" THEN <<r[2]>> ELSE <<>>
    /\ UNCHANGED <<storeVars, histVars, concVars, file, pos, messages, parsed>>
    /\ UNCHANGED extVars

\* scan_conversations: `except Exception: continue` around the file
ScanCatch ==
    /\ pstate = "raised"
    /\ pstate' = "skipped"
    /\ UNCHANGED <<storeVars, histVars, concVars, file, pos, messages, parsed, conv>>
    /\ UNCHANGED extVars

NextParse == ReadLine \/ EndOfFile \/ ScanCatch

SpecParse == InitParse /\ [][NextParse]_vars

(***************************************************************************)
(* Properties of the store                                                 *)
(***************************************************************************)
SessionPatterns(sid) == SelectSeq(patterns, LAMBDA r : r.session_id = sid)

\* C1: every repository_metrics row equals the rollup computed from scratch
\* over the conversation and pattern rows now stored for its repository.
C1_RollupConsistent ==
    \A r \in repository_metrics : r = RollupRow(DB, r.repository_name)

\* C2: a store call that fails at any of its statements leaves the three
\* tables exactly as they were before the call.
C2_AllOrNothing ==
    [][(calls' = calls + 1 /\ lastOutcome' = "failed")
          => /\ conversations' = conversations
             /\ patterns' = patterns
             /\ repository_metrics' = repository_metrics]_vars

\* a call failed after its statements had already changed rows, in a store
\* that held rows
C2_Witness ==
    /\ lastOutcome = "failed"
    /\ dirty
    /\ conversations # {}
    /\ patterns # <<>>

\* C3: a store call with the same (conversation, matches) as the committed
\* call just before it leaves the conversation rows, the multiset of pattern
\* rows and the repository_metrics rows as they were.
C3_Idempotent ==
    [][(calls' = calls + 1 /\ repeated')
          => /\ conversations' = conversations
             /\ BagOfSeq(patterns') = BagOfSeq(patterns)
             /\ repository_metrics' = repository_metrics]_vars

\* the same call was committed twice in a row, with pattern rows
C3_Witness ==
    /\ repeated
    /\ patterns # <<>>
    /\ repository_metrics # {}

\* C4: after N committed calls with distinct session_ids of one repository R
\* into an empty store, the row of R has conversation_count = N and
\* error_count = the error_detection match_count total of those calls.
C4_RollupCorrect ==
    (fresh /\ nStored > 0) =>
        /\ Cardinality({r \in repository_metrics : r.repository_name = freshRepo}) = 1
        /\ \A r \in repository_metrics :
              r.repository_name = freshRepo =>
                  /\ r.conversation_count = nStored
                  /\ r.error_count = errSum

\* two conversations of one repository stored, with error_detection matches
C4_Witness ==
    /\ fresh
    /\ nStored = 2
    /\ errSum > 2

\* C5: the conversations table has at most one row per session_id, carrying
\* the fields of the last committed call for that session.
C5_LastWriteWins ==
    \A s \in Sessions :
        LET rows == {r \in conversations : r.session_id = s}
        IN  IF lastStored[s] = <<>>
            THEN rows = {}
            ELSE /\ Cardinality(rows) = 1
                 /\ \A r \in rows :
                       LET c == lastStored[s][1]
                       IN  /\ r.repository_path = c.repository_path
                           /\ r.repository_name = repository_name(c)
                           /\ r.git_branch = c.git_branch
                           /\ r.start_time = c.start_time
                           /\ r.end_time = c.end_time
                           /\ r.message_count = c.message_count

\* a session stored a second time, under another repository
C5_Witness ==
    /\ lastOutcome = "ok"
    /\ ~fresh
    /\ Cardinality(conversations) = 1
    /\ Cardinality(repository_metrics) = 2

\* C6: right after a committed store(c, m) the pattern rows of c.session_id
\* are exactly the matches of m, as a multiset.
C6_MatchesReplaced ==
    lastOutcome = "ok" =>
        LET sid == lastCall[1].session_id
            m == lastCall[2]
        IN  BagOfSeq(SessionPatterns(sid)) =
                BagOfSeq([i \in DOMAIN m |-> PatternRow(sid, m[i])])

\* a session that had two pattern rows was stored again with two matches
C6_Witness ==
    /\ lastOutcome = "ok"
    /\ repeated
    /\ Len(lastCall[2]) >= 2
    /\ Cardinality(conversations) = 1

(***************************************************************************)
(* Properties of concurrent connections (SpecConc)                         *)
(***************************************************************************)
\* C7: a read query running while a store call is in progress never sees an
\* intermediate state: not a session's pattern rows partly replaced or
\* deleted and not yet re-inserted, nor new pattern rows with the old rollup.
C7_NoIntermediateRead ==
    obs # <<>> => obs[1].committed

\* a query ran while the open transaction had deleted the pattern rows of a
\* session that has committed pattern rows, before re-inserting them
C7_Witness ==
    /\ obs # <<>>
    /\ obs[1].during
    /\ lock # "none"
    /\ wstate[lock] = "running"
    /\ wstep[lock] = 2
    /\ SessionPatterns(wcall[lock][1].session_id) # <<>>

InTransaction(w) == wstate[w] = "running" /\ wstep[w] >= 1

\* C8: the transactions of two concurrent store calls never overlap, and
\* once two calls that ran at the same time, for different sessions of one
\* repository R, have both committed, both conversation rows are stored and
\* the row of R is the rollup computed from scratch.
C8_NoLostUpdate ==
    \A w1, w2 \in Writers :
        w1 # w2 =>
            /\ ~(InTransaction(w1) /\ InTransaction(w2))
            /\ ( /\ overlap
                 /\ wstate[w1] = "done"
                 /\ wstate[w2] = "done"
                 /\ wcall[w1][1].session_id # wcall[w2][1].session_id
                 /\ repository_name(wcall[w1][1]) = repository_name(wcall[w2][1]) )
               => LET repo == repository_name(wcall[w1][1])
                  IN  /\ ConvRow(wcall[w1][1]) \in conversations
                      /\ ConvRow(wcall[w2][1]) \in conversations
                      /\ \E r \in repository_metrics : r.repository_name = repo
                      /\ \A r \in repository_metrics :
                            r.repository_name = repo => r = RollupRow(DB, repo)

\* two calls that ran at the same time, for different sessions of one
\* repository and each with matches, have both committed
C8_Witness ==
    /\ overlap
    /\ wstate["w1"] = "done"
    /\ wstate["w2"] = "done"
    /\ wcall["w1"][1].session_id # wcall["w2"][1].session_id
    /\ repository_name(wcall["w1"][1]) = repository_name(wcall["w2"][1])
    /\ wcall["w1"][2] # <<>>
    /\ wcall["w2"][2] # <<>>

(***************************************************************************)
(* Properties of the parser (SpecParse)                                    *)
(***************************************************************************)
\* C9: from_jsonl_line returns a message or nothing for every line and never
\* raises to its caller.
C9_ParserTotal ==
    parsed # <<>> => parsed[1] \in {"message", "none"}

\* a valid line: a decodable record whose message field
\* is a record with text content (or is absent)
ValidLine(line) ==
    /\ line.shape = "record"
    /\ line.msg \in {"text", "missing"}

ValidLines == SelectSeq(file, ValidLine)

\* the valid lines carry timestamps that compare with one another
ComparableLines ==
    \A i, j \in DOMAIN ValidLines :
        (ValidLines[i].ts.kind = "aware") = (ValidLines[j].ts.kind = "aware")

\* C10: once a file with at least one valid line has been processed, a
\* Conversation is assembled from exactly its valid lines, in file order:
\* message_count is their number and each message carries the content of its
\* line (stated for files whose valid lines' timestamps compare).
C10_BadLineCostsItself ==
    (pstate \in {"assembled", "empty", "skipped"} /\ ValidLines # <<>> /\ ComparableLines)
        => /\ pstate = "assembled"
           /\ conv[1].message_count = Len(ValidLines)
           /\ Len(conv[1].messages) = Len(ValidLines)
           /\ \A i \in DOMAIN ValidLines :
                 /\ conv[1].messages[i].content =
                       (IF ValidLines[i].msg = "missing" THEN "" ELSE ValidLines[i].content)
                 /\ conv[1].messages[i].session_id = ValidLines[i].sessionId

\* C11: once the reading loop of a file has ended with at least one parsed
\* message, one Conversation is assembled whose start_time is the minimum and
\* end_time the maximum of the message timestamps and whose message_count is
\* the number of messages, also when offset-aware timestamps are mixed with
\* timestamps that fell back to the current time.
C11_AssemblyBounds ==
    (pstate # "reading" /\ parsed # <<"raise">> /\ messages # <<>>)
        => /\ pstate = "assembled"
           /\ conv # <<>>
           /\ conv[1].message_count = Len(messages)
           /\ \A i \in DOMAIN messages :
                 /\ conv[1].start_time.t <= messages[i].timestamp.t
                 /\ messages[i].timestamp.t <= conv[1].end_time.t
           /\ \E i \in DOMAIN messages : conv[1].start_time = messages[i].timestamp
           /\ \E i \in DOMAIN messages : conv[1].end_time = messages[i].timestamp

(***************************************************************************)
(* scanner.py: ConversationScanner._parse_since and scan_conversations.    *)
(* In the scan model times are whole days; a time-window expression is the *)
(* sequence of its characters.                                             *)
(***************************************************************************)
\* the most log files the scanned directory holds
MaxFiles == 2

\* datetime.now() during the scan
Now == 40

DigitValue ==
    [ch \in {"0", "1", "2", "3", "4", "5", "6", "7", "8", "9"} |->
        CASE ch = "0" -> 0 [] ch = "1" -> 1 [] ch = "2" -> 2 [] ch = "3" -> 3
          [] ch = "4" -> 4 [] ch = "5" -> 5 [] ch = "6" -> 6 [] ch = "7" -> 7
          [] ch = "8" -> 8 [] ch = "9" -> 9]

IsDigit(ch) == ch \in DOMAIN DigitValue

\* str.lower() on one character of a time-window expression
LowerUnit(ch) ==
    CASE ch = "D" -> "d" [] ch = "W" -> "w" [] ch = "M" -> "m" [] ch = "H" -> "h"
      [] OTHER -> ch

\* the number of leading digits: what (\d+) of re.match consumes
RECURSIVE LeadingDigits(_, _)
LeadingDigits(s, k) ==
    IF k < Len(s) /\ IsDigit(s[k + 1]) THEN LeadingDigits(s, k + 1) ELSE k

\* int() of the first n characters
RECURSIVE ParseInt(_, _)
ParseInt(s, n) ==
    IF n = 0 THEN 0 ELSE 10 * ParseInt(s, n - 1) + DigitValue[s[n]]

\* timedelta of the unit, in days
UnitDays(unit, amount) ==
    CASE unit = "d" -> amount
      [] unit = "w" -> 7 * amount
      [] unit = "m" -> 30 * amount

\* <<>> for None, else <<cutoff>>: now minus the window, offset-naive
parse_since(s, now) ==
    LET n == LeadingDigits(s, 0)
    IN  IF s = <<>> THEN <<>>
        ELSE IF n = 0 \/ n = Len(s) THEN <<>>
        ELSE IF LowerUnit(s[n + 1]) \notin {"d", "w", "m"} THEN <<>>
        ELSE <<[t |-> now - UnitDays(LowerUnit(s[n + 1]), ParseInt(s, n)),
                aware |-> FALSE]>>
\* a log file: unreadable (open or decoding fails) or its lines
LogFile(lines) == [readable |-> TRUE, lines |-> lines]
Unreadable == [readable |-> FALSE, lines |-> <<>>]

\* the reading loop of _parse_conversation_file: <<"messages", msgs>>, or
\* <<"raise", e>> when from_jsonl_line raises
RECURSIVE ReadLines(_, _, _, _)
ReadLines(lines, k, msgs, now) ==
    IF k = Len(lines) THEN <<"messages", msgs>>
    ELSE IF lines[k + 1].shape = "blank" THEN ReadLines(lines, k + 1, msgs, now)
    ELSE LET r == from_jsonl_line(lines[k + 1], now)
         IN  IF r[1] = "raise" THEN r
             ELSE IF r[1] = "message"
             THEN ReadLines(lines, k + 1, Append(msgs, r[2]), now)
             ELSE ReadLines(lines, k + 1, msgs, now)

\* _parse_conversation_file: <<"none">>, <<"raise", e>> or <<"conversation", c>>
parse_conversation_file(f, now) ==
    IF ~f.readable THEN <<"none">>
    ELSE LET r == ReadLines(f.lines, 0, <<>>, now)
         IN  IF r[1] = "raise" THEN r ELSE Assemble(r[2])

\* a < b on datetimes: "TypeError" when only one of them carries an offset
Earlier(a, b) ==
    IF a.aware # b.aware THEN "TypeError"
    ELSE IF a.t < b.t THEN "yes" ELSE "no"

NoFilter == <<>>

\* the characters of the names the model writes as strings
Characters ==
    ("foo" :> <<"f", "o", "o">>)
    @@ ("Foo" :> <<"F", "o", "o">>)
    @@ ("bar" :> <<"b", "a", "r">>)
    @@ ("foobar" :> <<"f", "o", "o", "b", "a", "r">>)
    @@ ("repo" :> <<"r", "e", "p", "o">>)
    @@ ("my_repo" :> <<"m", "y", "_", "r", "e", "p", "o">>)
    @@ ("my-repo" :> <<"m", "y", "-", "r", "e", "p", "o">>)
    @@ ("unknown" :> <<"u", "n", "k", "n", "o", "w", "n">>)

\* str(repository_path or ""): "/" before each component, "" for None
RECURSIVE PathText(_)
PathText(path) ==
    IF path = NoPath THEN <<>>
    ELSE PathText(SubSeq(path, 1, Len(path) - 1))
         \o <<"/">> \o Characters[path[Len(path)]]

\* filter occurs in text as a run of consecutive characters
Substring(filter, text) ==
    \E k \in 0..(Len(text) - Len(filter)) :
        \A i \in 1..Len(filter) : text[k + i] = filter[i]

\* `repository_filter in str(repository_path or "")`; a filter is the
\* sequence of its characters
Contains(filter, path) == Substring(filter, PathText(path))

\* the body of the loop over the files, inside try / except Exception:
\* <<"append", c>>, or <<"skip", why>> when nothing is appended
scan_file(f, cutoff, filter, now) ==
    LET r == parse_conversation_file(f, now)
    IN  IF r[1] = "raise" THEN <<"skip", "exception">>
        ELSE IF r[1] = "none" THEN <<"skip", "none">>
        ELSE IF cutoff # <<>> /\ Earlier(r[2].start_time, cutoff[1]) = "TypeError"
        THEN <<"skip", "exception">>
        ELSE IF cutoff # <<>> /\ Earlier(r[2].start_time, cutoff[1]) = "yes"
        THEN <<"skip", "cutoff">>
        ELSE IF filter # NoFilter /\ ~Contains(filter, r[2].repository_path)
        THEN <<"skip", "filter">>
        ELSE <<"append", r[2]>>

\* the list `conversations` after the first k files
RECURSIVE Collected(_, _, _, _, _)
Collected(files, k, cutoff, filter, now) ==
    IF k = 0 THEN <<>>
    ELSE LET before == Collected(files, k - 1, cutoff, filter, now)
             r == scan_file(files[k], cutoff, filter, now)
         IN  IF r[1] = "append" THEN Append(before, r[2]) ELSE before

\* sorted(..., key=start_time, reverse=True): stable, latest first
RECURSIVE InsertDesc(_, _)
InsertDesc(sorted, c) ==
    IF sorted = <<>> THEN <<c>>
    ELSE IF Head(sorted).start_time.t >= c.start_time.t
    THEN <<Head(sorted)>> \o InsertDesc(Tail(sorted), c)
    ELSE <<c>> \o sorted

RECURSIVE SortDesc(_, _)
SortDesc(cs, k) ==
    IF k = 0 THEN <<>> ELSE InsertDesc(SortDesc(cs, k - 1), cs[k])

\* the comparisons of the sort raise TypeError on a list that mixes
\* offset-aware and offset-naive start times
Sortable(cs) ==
    \A i, j \in DOMAIN cs : cs[i].start_time.aware = cs[j].start_time.aware

\* faulty variant: a missing projects directory is an error
ScanMissingRootRaises(files, ex, s, filter, now) ==
    IF ~ex THEN <<"raise", "FileNotFoundError">>
    ELSE LET kept == Collected(files, Len(files), parse_since(s, now), filter, now)
         IN  IF Sortable(kept)
             THEN <<"return", SortDesc(kept, Len(kept))>>
             ELSE <<"raise", "TypeError">>

\* scan_conversations: <<"return", list>> or <<"raise", e>>
scan_conversations(files, ex, s, filter, now) ==
    IF ~ex THEN <<"return", <<>>>>
    ELSE LET kept == Collected(files, Len(files), parse_since(s, now), filter, now)
         IN  IF Sortable(kept)
             THEN <<"return", SortDesc(kept, Len(kept))>>
             ELSE <<"raise", "TypeError">>
\* one-line log files: timestamps with and without an offset, 1, 10 and 35
\* days before Now, and files that yield no conversation
OneLine(sid, ts, cwd) ==
    LogFile(<<Line("record", sid, ts, "user", "text", "please fix", cwd, NoBranch)>>)

ScanFileInputs ==
    { OneLine("s1", Aware(Now - 10), <<"repo", "foo">>),
      OneLine("s2", Aware(Now - 1), <<"repo", "foo">>),
      OneLine("s1", Naive(Now - 10), NoPath),
      OneLine("s2", Naive(Now - 1), <<"repo", "bar">>),
      OneLine("s1", Naive(Now - 35), <<"repo", "foo">>),
      OneLine("s2", BadTime, <<"repo", "foo">>),
      OneLine("s1", Naive(Now - 2), <<"repo", "foobar">>),
      LogFile(<<GarbageLine>>),
      LogFile(<<ListLine>>),
      Unreadable,
      LogFile(<<Line("record", "s1", Aware(Now - 1), "assistant", "text",
                     "build failed", <<"repo", "foo">>, "main"),
                Line("record", "s1", BadTime, "user", "text", "please fix",
                     NoPath, NoBranch)>>) }

SinceInputs ==
    { <<"7", "d">>, <<"1", "w">>, <<"1", "m">>, <<"7", "D">>,
      <<"a", "b", "c">>, <<"2", "4", "h">>, <<>> }

FilterInputs == { NoFilter, <<"f", "o", "o">> }

InitScan ==
    /\ InitStore /\ InitHist /\ InitConc /\ InitNoFile
    /\ InitNoRun /\ InitNoDetect /\ InitNoQuery
    /\ root \in UNION { [1..n -> ScanFileInputs] : n \in 0..MaxFiles }
    /\ exists \in BOOLEAN
    /\ exists \/ root = <<>>
    /\ since \in SinceInputs
    /\ repository_filter \in FilterInputs
    /\ scanned = <<>>

\* one call of scan_conversations
Scan ==
    /\ scanned = <<>>
    /\ scanned' = <<scan_conversations(root, exists, since, repository_filter, Now)>>
    /\ UNCHANGED <<root, exists, since, repository_filter>>
    /\ UNCHANGED <<storeVars, histVars, concVars, parseVars, runVars, detVars, queryVars>>

NextScan == Scan

SpecScan == InitScan /\ [][NextScan]_vars

(***************************************************************************)
(* Properties of the scan (SpecScan)                                       *)
(***************************************************************************)
\* the conversation file k of the scanned directory assembles into, if any
Assembled(k) == parse_conversation_file(root[k], Now)

PassesFilter(c) ==
    repository_filter = NoFilter \/ Contains(repository_filter, c.repository_path)

Returned(c) ==
    /\ scanned[1][1] = "return"
    /\ \E i \in DOMAIN scanned[1][2] : scanned[1][2][i] = c

\* the window of the expressions "7d", "1w", "1m" and "7D", in days
WindowDays ==
    CASE since = <<"7", "d">> -> 7
      [] since = <<"1", "w">> -> 7
      [] since = <<"1", "m">> -> 30
      [] since = <<"7", "D">> -> 7
      [] OTHER -> 0

\* C12: with a window expression <N>d, <N>w or <N>m the scan returns an
\* assembled conversation that passes the repository filter if and only if
\* its start_time is not earlier than now minus the window, whether or not
\* its timestamps carry a UTC offset.
C12_WindowCutoff ==
    (scanned # <<>> /\ exists /\ WindowDays > 0) =>
        \A k \in DOMAIN root :
            (Assembled(k)[1] = "conversation" /\ PassesFilter(Assembled(k)[2]))
                => (Returned(Assembled(k)[2])
                        <=> Assembled(k)[2].start_time.t >= Now - WindowDays)

\* C13: with an unparsable window expression ("abc", "24h") _parse_since
\* yields no cutoff and the scan returns every assembled conversation that
\* passes the repository filter, whatever its age.
C13_UnparsableDisablesCutoff ==
    (scanned # <<>> /\ exists /\ since \in {<<"a", "b", "c">>, <<"2", "4", "h">>}) =>
        /\ parse_since(since, Now) = <<>>
        /\ \A k \in DOMAIN root :
              (Assembled(k)[1] = "conversation" /\ PassesFilter(Assembled(k)[2]))
                  => Returned(Assembled(k)[2])

\* C14: a scan over an existing root directory returns without raising, and
\* its result holds the conversation of every file whose reading, assembling
\* and filtering went through, whatever happened to the other files.
C14_ScanNeverAborts ==
    (scanned # <<>> /\ exists) =>
        /\ scanned[1][1] = "return"
        /\ \A k \in DOMAIN root :
              LET r == scan_file(root[k], parse_since(since, Now),
                                 repository_filter, Now)
              IN  r[1] = "append" => Returned(r[2])

(***************************************************************************)
(* cli.py: the scan command, from the list scan_conversations returned to  *)
(* record_scan.  What detect_patterns returns for a conversation is one of *)
(* the match lists RunMatches, or it raises.                               *)
(***************************************************************************)
MaxRun == 3

RunConversations ==
    { Conversation("s1", <<"repo", "foo">>,
                   [git_branch |-> "main", start_time |-> 2, end_time |-> 3,
                    message_count |-> 2]),
      Conversation("s2", <<"repo", "foo">>,
                   [git_branch |-> NoBranch, start_time |-> 1, end_time |-> 1,
                    message_count |-> 1]),
      Conversation("s1", NoPath,
                   [git_branch |-> NoBranch, start_time |-> 1, end_time |-> 1,
                    message_count |-> 1]) }

RunMatches == { <<>>, <<MatchOrder[2]>> }

InitRun ==
    /\ InitStore /\ InitHist /\ InitConc /\ InitNoFile
    /\ InitNoScan /\ InitNoDetect /\ InitNoQuery
    /\ run \in UNION { [1..n -> RunConversations] : n \in 0..MaxRun }
    /\ ridx = 0
    /\ processed = 0
    /\ repositories = {}
    /\ outcomes = <<>>
    /\ scan_history = <<>>
    /\ rstate = "loop"

\* `if not conversations: ... return`
RunNothing ==
    /\ rstate = "loop"
    /\ run = <<>>
    /\ rstate' = "nothing"
    /\ UNCHANGED <<run, ridx, processed, repositories, outcomes, scan_history>>
    /\ UNCHANGED <<storeVars, histVars, concVars, parseVars, scanVars, detVars, queryVars>>

\* faulty variant: the loop ends at the first error
AfterErrorBreak(handled, n) == n

\* `except Exception as e: ... continue`: the number of conversations the
\* loop over n conversations is past, once one more of them has failed
AfterError(handled, n) == handled + 1

\* one conversation of the loop whose detect_patterns call raises
RunDetectFails ==
    /\ rstate = "loop"
    /\ ridx < Len(run)
    /\ ridx' = AfterError(ridx, Len(run))
    /\ outcomes' = Append(outcomes, [at |-> ridx + 1, result |-> "detect",
                                     m |-> <<>>, dirty |-> FALSE])
    /\ UNCHANGED <<run, processed, repositories, scan_history, rstate>>
    /\ UNCHANGED <<storeVars, histVars, concVars, parseVars, scanVars, detVars, queryVars>>

\* one conversation of the loop whose store call raises at its k-th statement
RunStoreFails ==
    /\ rstate = "loop"
    /\ ridx < Len(run)
    /\ \E m \in RunMatches : \E k \in 1..Statements(m) :
          LET working == AfterStatements(DB, run[ridx + 1], m, k - 1)
          IN  /\ SetDB(Rollback(DB, working))
              /\ outcomes' = Append(outcomes, [at |-> ridx + 1, result |-> "store",
                                               m |-> <<>>, dirty |-> working # DB])
    /\ ridx' = AfterError(ridx, Len(run))
    /\ UNCHANGED <<run, processed, repositories, scan_history, rstate>>
    /\ UNCHANGED <<histVars, concVars, parseVars, scanVars, detVars, queryVars>>

\* one conversation of the loop, detected and stored
RunStoreOk ==
    /\ rstate = "loop"
    /\ ridx < Len(run)
    /\ \E m \in RunMatches :
          LET c == run[ridx + 1]
          IN  /\ SetDB(Commit(DB, AfterStatements(DB, c, m, Statements(m))))
              /\ outcomes' = Append(outcomes, [at |-> ridx + 1, result |-> "ok",
                                               m |-> m, dirty |-> FALSE])
              /\ repositories' = repositories \cup {repository_name(c)}
    /\ processed' = processed + 1
    /\ ridx' = ridx + 1
    /\ UNCHANGED <<run, scan_history, rstate>>
    /\ UNCHANGED <<histVars, concVars, parseVars, scanVars, detVars, queryVars>>

\* faulty variant: the record counts every conversation of the run
RunRecordCountsAll ==
    /\ rstate = "loop"
    /\ run # <<>>
    /\ ridx = Len(run)
    /\ scan_history' = Append(scan_history,
                              [conversations_processed |-> Len(run),
                               repositories_found |-> Cardinality(repositories)])
    /\ rstate' = "done"
    /\ UNCHANGED <<run, ridx, processed, repositories, outcomes>>
    /\ UNCHANGED <<storeVars, histVars, concVars, parseVars, scanVars, detVars, queryVars>>

\* after the loop: record_scan(scan_start, scan_end, processed, len(repositories))
RunRecord ==
    /\ rstate = "loop"
    /\ run # <<>>
    /\ ridx = Len(run)
    /\ scan_history' = Append(scan_history,
                              [conversations_processed |-> processed,
                               repositories_found |-> Cardinality(repositories)])
    /\ rstate' = "done"
    /\ UNCHANGED <<run, ridx, processed, repositories, outcomes>>
    /\ UNCHANGED <<storeVars, histVars, concVars, parseVars, scanVars, detVars, queryVars>>

NextRun == RunNothing \/ RunDetectFails \/ RunStoreFails \/ RunStoreOk \/ RunRecord

SpecRun == InitRun /\ [][NextRun]_vars

(***************************************************************************)
(* Properties of the scan command (SpecRun)                                *)
(***************************************************************************)
\* the tables after the stores that went through among the first k
\* conversations handled, made one after the other on an empty database
RECURSIVE Replayed(_)
Replayed(k) ==
    IF k = 0 THEN EmptyDB
    ELSE IF outcomes[k].result = "ok"
    THEN AfterStatements(Replayed(k - 1), run[outcomes[k].at], outcomes[k].m,
                         Statements(outcomes[k].m))
    ELSE Replayed(k - 1)

\* C15: in a scan run a conversation whose detection or store fails is not
\* counted as processed and leaves no row and changes none; every
\* conversation of the run is still handled, so at the end the tables are
\* those of the successful stores alone.
C15_FailureIsolation ==
    /\ processed = Cardinality({k \in DOMAIN outcomes : outcomes[k].result = "ok"})
    /\ DB = Replayed(Len(outcomes))
    /\ rstate = "done" =>
          \A i \in DOMAIN run : \E k \in DOMAIN outcomes : outcomes[k].at = i

\* a run of three conversations ended: the first was stored, the store of
\* the second failed after changing rows, the third was stored
C15_Witness ==
    /\ rstate = "done"
    /\ Len(run) = 3
    /\ Len(outcomes) = 3
    /\ outcomes[1].result = "ok"
    /\ outcomes[2].result = "store"
    /\ outcomes[2].dirty
    /\ outcomes[3].result = "ok"
    /\ Cardinality(conversations) = 2
    /\ patterns # <<>>

(***************************************************************************)
(* patterns.py: the regular expressions of the pattern table.  A text is   *)
(* the sequence of its characters.  Every built-in expression has the form *)
(* \b(alt|...|alt)\b, an alternative being made of literal text, \s+ and   *)
(* .* ; an optional character and a second group are written out as        *)
(* alternatives, in the order the backtracking matcher tries them.         *)
(***************************************************************************)
\* the value of e, computed once and named in F
With(e, F(_)) == CHOOSE y \in {F(x) : x \in {e}} : TRUE

Lit(chars) == [kind |-> "lit", chars |-> chars]
Ws == [kind |-> "ws", chars |-> <<>>]
AnyRun == [kind |-> "any", chars |-> <<>>]

\* an expression re.compile accepts, and expressions it raises on
Regex(alts) == [compile |-> "ok", alts |-> alts]
MalformedRegex == [compile |-> "re.error", alts |-> <<>>]
OverflowRegex == [compile |-> "OverflowError", alts |-> <<>>]

Letters ==
    {"a", "b", "c", "d", "e", "f", "g", "h", "i", "j", "k", "l", "m",
     "n", "o", "p", "q", "r", "s", "t", "u", "v", "w", "x", "y", "z"}
WordChars ==
    Letters \cup {"0", "1", "2", "3", "4", "5", "6", "7", "8", "9", "_"}
SpaceChars == {" ", "\n", "\t"}

\* str.lower() on one character
Lower(ch) ==
    CASE ch = "A" -> "a" [] ch = "B" -> "b" [] ch = "C" -> "c" [] ch = "D" -> "d"
      [] ch = "E" -> "e" [] ch = "F" -> "f" [] ch = "G" -> "g" [] ch = "H" -> "h"
      [] ch = "I" -> "i" [] ch = "J" -> "j" [] ch = "K" -> "k" [] ch = "L" -> "l"
      [] ch = "M" -> "m" [] ch = "N" -> "n" [] ch = "O" -> "o" [] ch = "P" -> "p"
      [] ch = "Q" -> "q" [] ch = "R" -> "r" [] ch = "S" -> "s" [] ch = "T" -> "t"
      [] ch = "U" -> "u" [] ch = "V" -> "v" [] ch = "W" -> "w" [] ch = "X" -> "x"
      [] ch = "Y" -> "y" [] ch = "Z" -> "z" [] OTHER -> ch

LowerText(text) == [i \in DOMAIN text |-> Lower(text[i])]

\* \b at offset p: exactly one of the characters around it is a word character
WordBoundary(text, p) ==
    (p >= 1 /\ Lower(text[p]) \in WordChars)
        # (p < Len(text) /\ Lower(text[p + 1]) \in WordChars)

\* literal text at offset p, under re.IGNORECASE
LitAt(text, p, chars) ==
    /\ p + Len(chars) <= Len(text)
    /\ \A i \in DOMAIN chars : Lower(text[p + i]) = Lower(chars[i])

\* the number of consecutive characters of C from offset p on
RunOf(text, p, C) ==
    CHOOSE n \in 0..(Len(text) - p) :
        /\ \A i \in 1..n : text[p + i] \in C
        /\ p + n = Len(text) \/ text[p + n + 1] \notin C

NonNewline(text) == {text[i] : i \in DOMAIN text} \ {"\n"}

\* the offset at which the tokens from the k-th on, followed by \b, end when
\* matched from offset p, as the backtracking matcher finds it (greedy
\* repetitions, longest tried first), or -1
RECURSIVE MatchTokens(_, _, _, _)
RECURSIVE Longest(_, _, _, _, _, _)
MatchTokens(text, toks, k, p) ==
    IF k > Len(toks)
    THEN IF WordBoundary(text, p) THEN p ELSE -1
    ELSE IF toks[k].kind = "lit"
    THEN IF LitAt(text, p, toks[k].chars)
         THEN MatchTokens(text, toks, k + 1, p + Len(toks[k].chars))
         ELSE -1
    ELSE IF toks[k].kind = "ws"
    THEN With(RunOf(text, p, SpaceChars),
              LAMBDA n : Longest(text, toks, k, p, n, 1))
    ELSE With(RunOf(text, p, NonNewline(text)),
              LAMBDA n : Longest(text, toks, k, p, n, 0))

\* a repetition that can take least..n characters: the longest length after
\* which the rest matches
Longest(text, toks, k, p, n, least) ==
    With([j \in least..n |-> MatchTokens(text, toks, k + 1, p + j)],
         LAMBDA ends :
            LET N == {j \in least..n : ends[j] # -1}
            IN  IF N = {} THEN -1
                ELSE ends[CHOOSE j \in N : \A i \in N : i <= j])

\* the first alternative from the i-th on that matches at offset p
RECURSIVE MatchAlts(_, _, _, _)
MatchAlts(text, alts, i, p) ==
    IF i > Len(alts) THEN -1
    ELSE LET e == MatchTokens(text, alts[i], 1, p)
         IN  IF e # -1 THEN e ELSE MatchAlts(text, alts, i + 1, p)

MatchAt(text, regex, p) ==
    IF WordBoundary(text, p) THEN MatchAlts(text, regex.alts, 1, p) ELSE -1

\* pattern.search from offset p: <<start, end>> of the leftmost match, or <<>>
Search(text, regex, p) ==
    With([q \in p..Len(text) |-> MatchAt(text, regex, q)],
         LAMBDA ends :
            LET S == {q \in p..Len(text) : ends[q] # -1}
                start == CHOOSE q \in S : \A r \in S : q <= r
            IN  IF S = {} THEN <<>> ELSE <<start, ends[start]>>)

\* len(pattern.findall(text)): the non-overlapping matches from offset p on
RECURSIVE FindAll(_, _, _)
FindAll(text, regex, p) ==
    With(Search(text, regex, p),
         LAMBDA m :
            IF m = <<>> THEN 0
            ELSE 1 + FindAll(text, regex, IF m[2] > m[1] THEN m[2] ELSE m[2] + 1))
(***************************************************************************)
(* patterns.py: PatternDetector                                            *)
(***************************************************************************)
\* _extract_sample: max_length and the context taken on each side of the match
MaxSampleLength == 100
SamplePadding == 20

\* a pattern definition: a dict with the keys "name", "regex" and "weight"
PatternDef(name, regex, weight) ==
    [keys |-> {"name", "regex", "weight"}, name |-> name, regex |-> regex,
     weight |-> weight]

\* one entry of the pattern table or of a configuration
Category(name, defs) == [category |-> name, patterns |-> defs]

\* _count_matches: <<"count", n>>, or <<"raise", e>> for what re.compile
\* raises other than re.error
count_matches(regex, text) ==
    IF regex.compile = "ok" THEN <<"count", FindAll(text, regex, 0)>>
    ELSE IF regex.compile = "re.error" THEN <<"count", 0>>
    ELSE <<"raise", regex.compile>>

\* str.strip()
RECURSIVE StripLeft(_)
StripLeft(text) ==
    IF text # <<>> /\ Head(text) \in SpaceChars THEN StripLeft(Tail(text)) ELSE text

RECURSIVE StripRight(_)
StripRight(text) ==
    IF text # <<>> /\ text[Len(text)] \in SpaceChars
    THEN StripRight(SubSeq(text, 1, Len(text) - 1))
    ELSE text

Strip(text) == StripRight(StripLeft(text))

Max(a, b) == IF a >= b THEN a ELSE b
Min(a, b) == IF a <= b THEN a ELSE b

\* _extract_sample, called for an expression that has a match in the text
extract_sample(regex, text) ==
    With(Search(text, regex, 0),
         LAMBDA m :
            IF m = <<>> THEN <<>>
            ELSE With(Strip(SubSeq(text, Max(0, m[1] - SamplePadding) + 1,
                                   Min(Len(text), m[2] + SamplePadding))),
                      LAMBDA sample :
                         IF Len(sample) > MaxSampleLength
                         THEN SubSeq(sample, 1, MaxSampleLength) \o <<".", ".", ".">>
                         ELSE sample))

\* " ".join of the lowered contents of the messages of one role
RECURSIVE JoinContents(_, _, _)
JoinContents(msgs, role, k) ==
    IF k = 0 THEN <<>>
    ELSE JoinContents(msgs, role, k - 1)
         \o (IF msgs[k].message_type # role THEN <<>>
             ELSE IF \A i \in 1..(k - 1) : msgs[i].message_type # role
             THEN LowerText(msgs[k].content)
             ELSE <<" ">> \o LowerText(msgs[k].content))

\* the matches one definition with user_matches = u and assistant_matches = a
\* appends, the user's first
DefinitionMatches(category, def, user_text, assistant_text, u, a) ==
    (IF u > 0
     THEN <<PatternMatch(def.name, category, def.weight, u, "user",
                         extract_sample(def.regex, user_text))>>
     ELSE <<>>)
    \o (IF a > 0
        THEN <<PatternMatch(def.name, category, def.weight, a, "assistant",
                            extract_sample(def.regex, assistant_text))>>
        ELSE <<>>)

\* the body of the inner loop of detect_patterns for one definition:
\* <<"matches", the matches it appends>> or <<"raise", e>>
detect_definition(category, def, user_text, assistant_text) ==
    IF {"name", "regex", "weight"} \ def.keys # {} THEN <<"raise", "KeyError">>
    ELSE With(count_matches(def.regex, user_text),
              LAMBDA u :
                 IF u[1] = "raise" THEN u
                 ELSE With(count_matches(def.regex, assistant_text),
                           LAMBDA a :
                              IF a[1] = "raise" THEN a
                              ELSE <<"matches",
                                     DefinitionMatches(category, def, user_text,
                                                       assistant_text, u[2], a[2])>>))

RECURSIVE Concat(_, _)
Concat(rs, k) == IF k = 0 THEN <<>> ELSE Concat(rs, k - 1) \o rs[k][2]

\* the outcome of a loop whose iterations had the outcomes rs: the first
\* exception raised, else all the matches appended
LoopOutcome(rs) ==
    LET R == {k \in DOMAIN rs : rs[k][1] = "raise"}
    IN  IF R # {} THEN rs[CHOOSE k \in R : \A i \in R : k <= i]
        ELSE <<"matches", Concat(rs, Len(rs))>>

\* the inner loop over the definitions of a category
detect_category(category, defs, user_text, assistant_text) ==
    With([k \in DOMAIN defs |->
             detect_definition(category, defs[k], user_text, assistant_text)],
         LAMBDA rs : LoopOutcome(rs))

\* the outer loop over the categories of the table
detect_table(tbl, user_text, assistant_text) ==
    With([k \in DOMAIN tbl |->
             detect_category(tbl[k].category, tbl[k].patterns, user_text,
                             assistant_text)],
         LAMBDA rs : LoopOutcome(rs))

\* ConversationPatterns.total_score
RECURSIVE total_score(_, _)
total_score(m, k) ==
    IF k = 0 THEN 0
    ELSE total_score(m, k - 1) + m[k].weight * m[k].match_count

ConversationPatterns(sid, repo, m) ==
    [session_id |-> sid, repository_name |-> repo, patterns |-> m,
     total_score |-> total_score(m, Len(m))]

\* detect_patterns: <<"return", ConversationPatterns>> or <<"raise", e>>
DetectTexts(tbl, c, user_text, assistant_text) ==
    With(detect_table(tbl, user_text, assistant_text),
         LAMBDA r :
            IF r[1] = "raise" THEN r
            ELSE <<"return",
                   ConversationPatterns(c.session_id, repository_name(c), r[2])>>)

detect_patterns(tbl, c) ==
    With(JoinContents(c.messages, "user", Len(c.messages)),
         LAMBDA user_text :
            With(JoinContents(c.messages, "assistant", Len(c.messages)),
                 LAMBDA assistant_text :
                    DetectTexts(tbl, c, user_text, assistant_text)))

\* faulty variant: the definitions of the configuration are added to the
\* built-in ones of their category
MergeIntoCategory(tbl, entry) ==
    IF \E i \in DOMAIN tbl : tbl[i].category = entry.category
    THEN [i \in DOMAIN tbl |->
             IF tbl[i].category = entry.category
             THEN Category(entry.category, tbl[i].patterns \o entry.patterns)
             ELSE tbl[i]]
    ELSE Append(tbl, entry)

\* dict.update for one key: the value of an existing key is replaced in
\* place, a new key is added at the end
UpdateCategory(tbl, entry) ==
    IF \E i \in DOMAIN tbl : tbl[i].category = entry.category
    THEN [i \in DOMAIN tbl |->
             IF tbl[i].category = entry.category THEN entry ELSE tbl[i]]
    ELSE Append(tbl, entry)

\* load_custom_patterns: nothing for an empty or absent configuration,
\* else self.patterns.update(patterns_config)
RECURSIVE load_custom_patterns(_, _, _)
load_custom_patterns(tbl, cfg, k) ==
    IF k = 0 THEN tbl
    ELSE UpdateCategory(load_custom_patterns(tbl, cfg, k - 1), cfg[k])
\* _load_default_patterns: the built-in table
DefaultPatterns ==
    <<
      Category("error_detection", <<
        PatternDef("test_failures", Regex(<<
            <<Lit(<<"t", "e", "s", "t">>), Ws, Lit(<<"f", "a", "i", "l">>)>>,
            <<Lit(<<"a", "s", "s", "e", "r", "t", "i", "o", "n">>), Ws, Lit(<<"e", "r", "r", "o", "r">>)>>,
            <<Lit(<<"t", "e", "s", "t">>), AnyRun, Lit(<<"f", "a", "i", "l", "e", "d">>)>>,
            <<Lit(<<"t", "e", "s", "t", "s">>), Ws, Lit(<<"a", "r", "e">>), Ws, Lit(<<"f", "a", "i", "l", "i", "n", "g">>)>>,
            <<Lit(<<"t", "e", "s", "t">>), Ws, Lit(<<"a", "r", "e">>), Ws, Lit(<<"f", "a", "i", "l", "i", "n", "g">>)>> >>), 80),
        PatternDef("build_errors", Regex(<<
            <<Lit(<<"b", "u", "i", "l", "d">>), Ws, Lit(<<"f", "a", "i", "l">>)>>,
            <<Lit(<<"c", "o", "m", "p", "i", "l", "a", "t", "i", "o", "n">>), Ws, Lit(<<"e", "r", "r", "o", "r">>)>>,
            <<Lit(<<"c", "a", "n", "n", "o", "t">>), Ws, Lit(<<"b", "u", "i", "l", "d">>)>>,
            <<Lit(<<"b", "u", "i", "l", "d">>), Ws, Lit(<<"e", "r", "r", "o", "r">>)>> >>), 85),
        PatternDef("runtime_errors", Regex(<<
            <<Lit(<<"e", "r", "r", "o", "r">>)>>,
            <<Lit(<<"e", "x", "c", "e", "p", "t", "i", "o", "n">>)>>,
            <<Lit(<<"t", "r", "a", "c", "e", "b", "a", "c", "k">>)>>,
            <<Lit(<<"s", "t", "a", "c", "k">>), Ws, Lit(<<"t", "r", "a", "c", "e">>)>>,
            <<Lit(<<"u", "n", "c", "a", "u", "g", "h", "t">>), Ws, Lit(<<"e", "x", "c", "e", "p", "t", "i", "o", "n">>)>> >>), 75),
        PatternDef("syntax_errors", Regex(<<
            <<Lit(<<"s", "y", "n", "t", "a", "x">>), Ws, Lit(<<"e", "r", "r", "o", "r">>)>>,
            <<Lit(<<"p", "a", "r", "s", "e">>), Ws, Lit(<<"e", "r", "r", "o", "r">>)>>,
            <<Lit(<<"i", "n", "v", "a", "l", "i", "d">>), Ws, Lit(<<"s", "y", "n", "t", "a", "x">>)>>,
            <<Lit(<<"u", "n", "e", "x", "p", "e", "c", "t", "e", "d">>), Ws, Lit(<<"t", "o", "k", "e", "n">>)>> >>), 70),
        PatternDef("type_errors", Regex(<<
            <<Lit(<<"t", "y", "p", "e">>), Ws, Lit(<<"e", "r", "r", "o", "r">>)>>,
            <<Lit(<<"t", "y", "p", "e", "s", "c", "r", "i", "p", "t">>), Ws, Lit(<<"e", "r", "r", "o", "r">>)>>,
            <<Lit(<<"m", "y", "p", "y">>), Ws, Lit(<<"e", "r", "r", "o", "r">>)>>,
            <<Lit(<<"t", "y", "p", "e">>), Ws, Lit(<<"m", "i", "s", "m", "a", "t", "c", "h">>)>> >>), 65) >>),
      Category("code_quality", <<
        PatternDef("quick_fixes", Regex(<<
            <<Lit(<<"q", "u", "i", "c", "k">>), Ws, Lit(<<"f", "i", "x">>)>>,
            <<Lit(<<"h", "a", "c", "k">>)>>,
            <<Lit(<<"w", "o", "r", "k", "a", "r", "o", "u", "n", "d">>)>>,
            <<Lit(<<"t", "e", "m", "p", "o", "r", "a", "r", "y">>), Ws, Lit(<<"f", "i", "x">>)>> >>), 60),
        PatternDef("todo_items", Regex(<<
            <<Lit(<<"t", "o", "d", "o">>)>>,
            <<Lit(<<"f", "i", "x", "m", "e">>)>>,
            <<Lit(<<"h", "a", "c", "k">>)>>,
            <<Lit(<<"t", "e", "m", "p", "o", "r", "a", "r", "y">>)>> >>), 40),
        PatternDef("refactoring", Regex(<<
            <<Lit(<<"r", "e", "f", "a", "c", "t", "o", "r">>)>>,
            <<Lit(<<"c", "l", "e", "a", "n">>), Ws, Lit(<<"u", "p">>)>>,
            <<Lit(<<"o", "p", "t", "i", "m", "i", "z", "e">>)>>,
            <<Lit(<<"i", "m", "p", "r", "o", "v", "e">>), Ws, Lit(<<"c", "o", "d", "e">>)>> >>), 50),
        PatternDef("code_review", Regex(<<
            <<Lit(<<"c", "o", "d", "e">>), Ws, Lit(<<"r", "e", "v", "i", "e", "w">>)>>,
            <<Lit(<<"p", "e", "e", "r">>), Ws, Lit(<<"r", "e", "v", "i", "e", "w">>)>>,
            <<Lit(<<"r", "e", "v", "i", "e", "w">>), Ws, Lit(<<"c", "h", "a", "n", "g", "e", "s">>)>> >>), 45) >>),
      Category("tool_usage", <<
        PatternDef("file_operations", Regex(<<
            <<Lit(<<"r", "e", "a", "d">>), Ws, Lit(<<"f", "i", "l", "e">>)>>,
            <<Lit(<<"r", "e", "a", "d">>), Ws, Lit(<<"d", "i", "r", "e", "c", "t", "o", "r", "y">>)>>,
            <<Lit(<<"w", "r", "i", "t", "e">>), Ws, Lit(<<"f", "i", "l", "e">>)>>,
            <<Lit(<<"w", "r", "i", "t", "e">>), Ws, Lit(<<"d", "i", "r", "e", "c", "t", "o", "r", "y">>)>>,
            <<Lit(<<"e", "d", "i", "t">>), Ws, Lit(<<"f", "i", "l", "e">>)>>,
            <<Lit(<<"e", "d", "i", "t">>), Ws, Lit(<<"d", "i", "r", "e", "c", "t", "o", "r", "y">>)>>,
            <<Lit(<<"c", "r", "e", "a", "t", "e">>), Ws, Lit(<<"f", "i", "l", "e">>)>>,
            <<Lit(<<"c", "r", "e", "a", "t", "e">>), Ws, Lit(<<"d", "i", "r", "e", "c", "t", "o", "r", "y">>)>>,
            <<Lit(<<"d", "e", "l", "e", "t", "e">>), Ws, Lit(<<"f", "i", "l", "e">>)>>,
            <<Lit(<<"d", "e", "l", "e", "t", "e">>), Ws, Lit(<<"d", "i", "r", "e", "c", "t", "o", "r", "y">>)>> >>), 30),
        PatternDef("git_operations", Regex(<<
            <<Lit(<<"g", "i", "t">>), Ws, Lit(<<"c", "o", "m", "m", "i", "t">>)>>,
            <<Lit(<<"g", "i", "t">>), Ws, Lit(<<"p", "u", "s", "h">>)>>,
            <<Lit(<<"g", "i", "t">>), Ws, Lit(<<"m", "e", "r", "g", "e">>)>>,
            <<Lit(<<"g", "i", "t">>), Ws, Lit(<<"b", "r", "a", "n", "c", "h">>)>>,
            <<Lit(<<"g", "i", "t">>), Ws, Lit(<<"c", "h", "e", "c", "k", "o", "u", "t">>)>> >>), 50),
        PatternDef("testing", Regex(<<
            <<Lit(<<"r", "u", "n">>), Ws, Lit(<<"t", "e", "s", "t">>)>>,
            <<Lit(<<"p", "y", "t", "e", "s", "t">>)>>,
            <<Lit(<<"n", "p", "m">>), Ws, Lit(<<"t", "e", "s", "t">>)>>,
            <<Lit(<<"t", "e", "s", "t">>), Ws, Lit(<<"s", "u", "i", "t", "e">>)>>,
            <<Lit(<<"u", "n", "i", "t">>), Ws, Lit(<<"t", "e", "s", "t">>)>> >>), 70),
        PatternDef("debugging", Regex(<<
            <<Lit(<<"d", "e", "b", "u", "g">>)>>,
            <<Lit(<<"d", "e", "b", "u", "g", "g", "e", "r">>)>>,
            <<Lit(<<"b", "r", "e", "a", "k", "p", "o", "i", "n", "t">>)>>,
            <<Lit(<<"c", "o", "n", "s", "o", "l", "e", ".", "l", "o", "g">>)>>,
            <<Lit(<<"p", "r", "i", "n", "t">>), Ws, Lit(<<"d", "e", "b", "u", "g">>)>> >>), 55),
        PatternDef("package_management", Regex(<<
            <<Lit(<<"n", "p", "m">>), Ws, Lit(<<"i", "n", "s", "t", "a", "l", "l">>)>>,
            <<Lit(<<"p", "i", "p">>), Ws, Lit(<<"i", "n", "s", "t", "a", "l", "l">>)>>,
            <<Lit(<<"y", "a", "r", "n">>), Ws, Lit(<<"a", "d", "d">>)>>,
            <<Lit(<<"c", "o", "m", "p", "o", "s", "e", "r">>), Ws, Lit(<<"i", "n", "s", "t", "a", "l", "l">>)>> >>), 40),
        PatternDef("database_operations", Regex(<<
            <<Lit(<<"d", "a", "t", "a", "b", "a", "s", "e">>)>>,
            <<Lit(<<"s", "q", "l">>)>>,
            <<Lit(<<"q", "u", "e", "r", "y">>)>>,
            <<Lit(<<"m", "i", "g", "r", "a", "t", "i", "o", "n">>)>>,
            <<Lit(<<"s", "c", "h", "e", "m", "a">>)>> >>), 45) >>),
      Category("development_workflow", <<
        PatternDef("feature_development", Regex(<<
            <<Lit(<<"n", "e", "w">>), Ws, Lit(<<"f", "e", "a", "t", "u", "r", "e">>)>>,
            <<Lit(<<"i", "m", "p", "l", "e", "m", "e", "n", "t">>)>>,
            <<Lit(<<"a", "d", "d">>), Ws, Lit(<<"f", "u", "n", "c", "t", "i", "o", "n", "a", "l", "i", "t", "y">>)>> >>), 60),
        PatternDef("bug_fixes", Regex(<<
            <<Lit(<<"b", "u", "g">>), Ws, Lit(<<"f", "i", "x">>)>>,
            <<Lit(<<"f", "i", "x">>), Ws, Lit(<<"i", "s", "s", "u", "e">>)>>,
            <<Lit(<<"r", "e", "s", "o", "l", "v", "e">>), Ws, Lit(<<"p", "r", "o", "b", "l", "e", "m">>)>>,
            <<Lit(<<"p", "a", "t", "c", "h">>)>> >>), 75),
        PatternDef("documentation", Regex(<<
            <<Lit(<<"d", "o", "c", "u", "m", "e", "n", "t", "a", "t", "i", "o", "n">>)>>,
            <<Lit(<<"r", "e", "a", "d", "m", "e">>)>>,
            <<Lit(<<"d", "o", "c", "s">>)>>,
            <<Lit(<<"c", "o", "m", "m", "e", "n", "t">>)>>,
            <<Lit(<<"d", "o", "c", "s", "t", "r", "i", "n", "g">>)>> >>), 35),
        PatternDef("performance_optimization", Regex(<<
            <<Lit(<<"p", "e", "r", "f", "o", "r", "m", "a", "n", "c", "e">>)>>,
            <<Lit(<<"o", "p", "t", "i", "m", "i", "z", "e">>)>>,
            <<Lit(<<"s", "p", "e", "e", "d">>), Ws, Lit(<<"u", "p">>)>>,
            <<Lit(<<"e", "f", "f", "i", "c", "i", "e", "n", "t">>)>> >>), 55),
        PatternDef("security", Regex(<<
            <<Lit(<<"s", "e", "c", "u", "r", "i", "t", "y">>)>>,
            <<Lit(<<"v", "u", "l", "n", "e", "r", "a", "b", "i", "l", "i", "t", "y">>)>>,
            <<Lit(<<"a", "u", "t", "h">>)>>,
            <<Lit(<<"a", "u", "t", "h", "o", "r", "i", "z", "a", "t", "i", "o", "n">>)>>,
            <<Lit(<<"e", "n", "c", "r", "y", "p", "t", "i", "o", "n">>)>> >>), 80) >>)
    >>
\* n times the character ch
Filler(ch, n) == [i \in 1..n |-> ch]

\* the two-line log of the scenario
ScenarioFile ==
    LogFile(<<
      Line("record", "s1", Aware(Now - 2), "assistant", "text",
           <<"b", "u", "i", "l", "d", " ", "f", "a", "i", "l", "e", "d">>,
           <<"repo", "foo">>, NoBranch),
      Line("record", "s1", Aware(Now - 1), "user", "text",
           <<"p", "l", "e", "a", "s", "e", " ", "f", "i", "x">>,
           NoPath, NoBranch) >>)

\* a build error named by both sides, with capitals and a double space
BuildErrorFile ==
    LogFile(<<
      Line("record", "s1", Aware(Now - 2), "assistant", "text",
           <<"B", "u", "i", "l", "d", " ", " ", "E", "R", "R", "O", "R", " ", "i", "n", " ", "m", "o", "d", "u", "l", "e">>,
           <<"repo", "foo">>, NoBranch),
      Line("record", "s1", Aware(Now - 1), "user", "text",
           <<"p", "l", "e", "a", "s", "e", " ", "f", "i", "x", " ", "t", "h", "e", " ", "b", "u", "i", "l", "d", " ", "e", "r", "r", "o", "r">>,
           <<"repo", "foo">>, NoBranch) >>)

\* two matches of one pattern in one text
GitFile ==
    LogFile(<<
      Line("record", "s1", Aware(Now - 2), "user", "text",
           <<"g", "i", "t", " ", "p", "u", "s", "h">>,
           <<"repo", "foo">>, NoBranch),
      Line("record", "s1", Aware(Now - 1), "assistant", "text",
           <<"g", "i", "t", " ", "c", "o", "m", "m", "i", "t", " ", "t", "h", "e", "n", " ", "g", "i", "t", " ", "p", "u", "s", "h", ",", " ", "d", "o", "n", "e">>,
           <<"repo", "foo">>, NoBranch),
      Line("record", "s1", Aware(Now - 1), "assistant", "text",
           <<"p", "y", "t", "e", "s", "t", " ", "p", "a", "s", "s", "e", "d">>,
           <<"repo", "foo">>, NoBranch) >>)

\* a match of test.*failed that is longer than max_length
LongMatchFile ==
    LogFile(<<
      Line("record", "s1", Aware(Now - 2), "user", "text",
           <<"t", "e", "s", "t">> \o Filler("x", 100) \o <<" ", "f", "a", "i", "l", "e", "d">>,
           <<"repo", "foo">>, NoBranch) >>)

\* a match with more than 20 characters on each side
PaddedFile ==
    LogFile(<<
      Line("record", "s1", Aware(Now - 2), "assistant", "text",
           Filler("a", 30) \o <<" ", "t", "e", "m", "p", "o", "r", "a", "r", "y", " ", "h", "a", "c", "k", " ", " ", " ">> \o Filler("b", 30),
           <<"repo", "foo">>, NoBranch) >>)

\* failing tests
TestsFile ==
    LogFile(<<
      Line("record", "s1", Aware(Now - 2), "user", "text",
           <<"t", "e", "s", "t", "s", " ", "a", "r", "e", " ", "f", "a", "i", "l", "i", "n", "g">>,
           <<"repo", "foo">>, NoBranch),
      Line("record", "s1", Aware(Now - 1), "assistant", "text",
           <<"t", "h", "e", " ", "t", "e", "s", "t", " ", "s", "u", "i", "t", "e", " ", "f", "a", "i", "l", "e", "d", "\n", "t", "e", "s", "t", "s", " ", "f", "a", "i", "l", "e", "d", " ", "a", "g", "a", "i", "n">>,
           <<"repo", "foo">>, NoBranch) >>)

\* no pattern matches
QuietFile ==
    LogFile(<<
      Line("record", "s1", Aware(Now - 2), "user", "text",
           <<"h", "e", "l", "l", "o">>,
           <<"repo", "foo">>, NoBranch),
      Line("record", "s1", Aware(Now - 1), "assistant", "text",
           <<"h", "i", " ", "t", "h", "e", "r", "e">>,
           <<"repo", "foo">>, NoBranch) >>)

\* debugging
DebugFile ==
    LogFile(<<
      Line("record", "s1", Aware(Now - 2), "user", "text",
           <<"a", "d", "d", " ", "c", "o", "n", "s", "o", "l", "e", ".", "l", "o", "g", " ", "a", "n", "d", " ", "d", "e", "b", "u", "g", " ", "t", "h", "e", " ", "s", "q", "l", " ", "q", "u", "e", "r", "y">>,
           <<"repo", "foo">>, NoBranch),
      Line("record", "s1", Aware(Now - 1), "system", "text",
           <<"e", "r", "r", "o", "r">>,
           <<"repo", "foo">>, NoBranch) >>)

\* an error reported by the user
ErrorFile ==
    LogFile(<<
      Line("record", "s1", Aware(Now - 2), "user", "text",
           <<"e", "r", "r", "o", "r", ":", " ", "u", "n", "c", "a", "u", "g", "h", "t", " ", "e", "x", "c", "e", "p", "t", "i", "o", "n", ",", " ", "s", "e", "e", " ", "t", "r", "a", "c", "e", "b", "a", "c", "k">>,
           <<"repo", "foo">>, NoBranch) >>)

SubjectInputs ==
    { ScenarioFile,
      BuildErrorFile,
      GitFile,
      LongMatchFile,
      PaddedFile,
      TestsFile,
      QuietFile,
      DebugFile,
      ErrorFile }
\* configurations given to load_custom_patterns: none; a category replaced
\* by one definition, \b(build\s+failed)\b; a new category whose first
\* expression is malformed, "(" ; an expression whose repeat count is too
\* large, "a{99999999999999999999}"; a definition without a weight; a
\* negative weight
NoConfig == <<>>

BuildFailedConfig ==
    << Category("error_detection", <<
         PatternDef("build_errors", Regex(<<
             <<Lit(<<"b", "u", "i", "l", "d">>), Ws,
               Lit(<<"f", "a", "i", "l", "e", "d">>)>> >>), 90) >>) >>

MalformedConfig ==
    << Category("requests", <<
         PatternDef("broken", MalformedRegex, 10),
         PatternDef("fix_requests", Regex(<<
             <<Lit(<<"p", "l", "e", "a", "s", "e">>), Ws,
               Lit(<<"f", "i", "x">>)>> >>), 20) >>) >>

OverflowConfig ==
    << Category("tool_usage", << PatternDef("repeats", OverflowRegex, 10) >>) >>

NoWeightConfig ==
    << Category("code_quality", <<
         [keys |-> {"name", "regex"}, name |-> "hacks",
          regex |-> Regex(<< <<Lit(<<"h", "a", "c", "k">>)>> >>), weight |-> 0] >>) >>

NegativeConfig ==
    << Category("error_detection", <<
         PatternDef("fixed_errors", Regex(<<
             <<Lit(<<"e", "r", "r", "o", "r">>)>> >>), -5) >>) >>

ConfigInputs ==
    { NoConfig, BuildFailedConfig, MalformedConfig, OverflowConfig,
      NoWeightConfig, NegativeConfig }

\* a PatternDetector is constructed; a log file is at hand
InitDetect ==
    /\ InitStore /\ InitHist /\ InitConc /\ InitNoFile
    /\ InitNoScan /\ InitNoRun /\ InitNoQuery
    /\ custom = <<>>
    /\ subject \in SubjectInputs
    /\ table = DefaultPatterns
    /\ detected = <<>>

\* detector.load_custom_patterns(cfg)
LoadCustom ==
    /\ custom = <<>>
    /\ detected = <<>>
    /\ \E cfg \in ConfigInputs :
          /\ custom' = <<cfg>>
          /\ table' = load_custom_patterns(table, cfg, Len(cfg))
    /\ UNCHANGED <<subject, detected>>
    /\ UNCHANGED <<storeVars, histVars, concVars, parseVars, scanVars, runVars, queryVars>>

\* detector.detect_patterns on the conversation of the log file
Detect ==
    /\ detected = <<>>
    /\ \E r \in {parse_conversation_file(subject, Now)} :
          /\ r[1] = "conversation"
          /\ detected' = <<detect_patterns(table, r[2])>>
    /\ UNCHANGED <<custom, subject, table>>
    /\ UNCHANGED <<storeVars, histVars, concVars, parseVars, scanVars, runVars, queryVars>>

NextDetect == LoadCustom \/ Detect

SpecDetect == InitDetect /\ [][NextDetect]_vars

(***************************************************************************)
(* Properties of the detector (SpecDetect)                                 *)
(***************************************************************************)
\* the conversation of the log file
SubjectConversation == parse_conversation_file(subject, Now)

\* C16: the log of the scenario (an assistant message "build failed" with
\* cwd /repo/foo, a user message "please fix") yields one Conversation with
\* message_count 2 and repository_name "foo", and detection with the
\* built-in table emits a build_errors match of category error_detection
\* for the assistant with match_count >= 1.
C16_BuildFailedScenario ==
    (subject = ScenarioFile /\ table = DefaultPatterns /\ detected # <<>>) =>
        /\ SubjectConversation[1] = "conversation"
        /\ SubjectConversation[2].message_count = 2
        /\ repository_name(SubjectConversation[2]) = "foo"
        /\ detected[1][1] = "return"
        /\ \E i \in DOMAIN detected[1][2].patterns :
              LET p == detected[1][2].patterns[i]
              IN  /\ p.pattern_name = "build_errors"
                  /\ p.pattern_category = "error_detection"
                  /\ p.message_type = "assistant"
                  /\ p.match_count >= 1

Emitted(category, name, role) ==
    \E i \in DOMAIN detected[1][2].patterns :
        /\ detected[1][2].patterns[i].pattern_category = category
        /\ detected[1][2].patterns[i].pattern_name = name
        /\ detected[1][2].patterns[i].message_type = role

\* C17: whatever configuration load_custom_patterns was given, detection
\* returns normally; a definition whose expression is malformed emits no
\* match, and every definition with a well-formed expression that occurs in
\* the user or assistant text emits its match.
C17_CustomNeverCrashes ==
    (custom # <<>> /\ detected # <<>>) =>
        /\ detected[1][1] = "return"
        /\ \A k \in DOMAIN table : \A i \in DOMAIN table[k].patterns :
              LET def == table[k].patterns[i]
                  msgs == SubjectConversation[2].messages
              IN  /\ def.regex.compile = "re.error" =>
                        /\ ~Emitted(table[k].category, def.name, "user")
                        /\ ~Emitted(table[k].category, def.name, "assistant")
                  /\ def.regex.compile = "ok" =>
                        /\ FindAll(JoinContents(msgs, "user", Len(msgs)), def.regex, 0) > 0
                              => Emitted(table[k].category, def.name, "user")
                        /\ FindAll(JoinContents(msgs, "assistant", Len(msgs)), def.regex, 0) > 0
                              => Emitted(table[k].category, def.name, "assistant")

\* C18: the sample_text of every emitted match is at most 100 characters
\* long, also when the first match with its padding is longer and the
\* excerpt is cut and marked.
C18_SampleBounded ==
    (detected # <<>> /\ detected[1][1] = "return") =>
        \A i \in DOMAIN detected[1][2].patterns :
            Len(detected[1][2].patterns[i].sample_text) <= 100

\* C19: the total_score of every detection, with the built-in table or with
\* a configured table of integer weights, is not negative.
C19_ScoreNonNegative ==
    (detected # <<>> /\ detected[1][1] = "return") =>
        detected[1][2].total_score >= 0

\* the pattern list the table t holds for a category (<<>> if it has none)
PatternsOf(t, category) ==
    IF \E k \in DOMAIN t : t[k].category = category
    THEN t[CHOOSE k \in DOMAIN t : t[k].category = category].patterns
    ELSE <<>>

CategoriesOf(t) == {t[k].category : k \in DOMAIN t}

\* C20: after load_custom_patterns(cfg) every category named in cfg has
\* exactly cfg's pattern list, every other category keeps its built-in list,
\* no further category appears, and an empty cfg leaves the table as built.
C20_CategoryGranularity ==
    custom # <<>> =>
        /\ \A k \in DOMAIN custom[1] :
              /\ Cardinality({i \in DOMAIN table :
                                 table[i].category = custom[1][k].category}) = 1
              /\ PatternsOf(table, custom[1][k].category) = custom[1][k].patterns
        /\ \A c \in CategoriesOf(DefaultPatterns) \ CategoriesOf(custom[1]) :
              /\ Cardinality({i \in DOMAIN table : table[i].category = c}) = 1
              /\ PatternsOf(table, c) = PatternsOf(DefaultPatterns, c)
        /\ CategoriesOf(table) = CategoriesOf(DefaultPatterns) \cup CategoriesOf(custom[1])
        /\ custom[1] = <<>> => table = DefaultPatterns

\* a configuration naming the built-in category error_detection with one
\* definition was loaded: the five built-in definitions of it are gone
C20_Witness ==
    /\ custom = <<BuildFailedConfig>>
    /\ Len(PatternsOf(DefaultPatterns, "error_detection")) = 5
    /\ Len(PatternsOf(table, "error_detection")) = 1
    /\ Len(table) = 4

\* the definitions the table t holds for a category, as a set
DefinitionsOf(t, category) ==
    {PatternsOf(t, category)[i] : i \in DOMAIN PatternsOf(t, category)}

\* C21: after load_custom_patterns(cfg) every definition of cfg is in the
\* table under its category (overriding the built-in definition of the same
\* category and name, or added), and every built-in definition whose
\* category and name cfg does not name is still in the table.
C21_PerEntryMerge ==
    custom # <<>> =>
        /\ \A k \in DOMAIN custom[1] :
              DefinitionsOf(custom[1], custom[1][k].category)
                  \subseteq DefinitionsOf(table, custom[1][k].category)
        /\ \A k \in DOMAIN DefaultPatterns :
              \A d \in DefinitionsOf(DefaultPatterns, DefaultPatterns[k].category) :
                  (\A e \in DefinitionsOf(custom[1], DefaultPatterns[k].category) :
                        e.name # d.name)
                      => d \in DefinitionsOf(table, DefaultPatterns[k].category)

\* the cutoff of the scan: <<>> or <<cutoff>>
Cutoff == parse_since(since, Now)

\* file k assembles into a conversation that is inside the time window and
\* passes the repository filter
Qualifies(k) ==
    /\ Assembled(k)[1] = "conversation"
    /\ Cutoff # <<>> => Assembled(k)[2].start_time.t >= Cutoff[1].t
    /\ PassesFilter(Assembled(k)[2])

\* C22: when every file assembles into a conversation that passes the
\* filters, scan_conversations returns a list in which the start_time of each
\* conversation is not earlier than that of the next one.
C22_SortedDescending ==
    (scanned # <<>> /\ exists /\ \A k \in DOMAIN root : Qualifies(k)) =>
        /\ scanned[1][1] = "return"
        /\ \A i \in 1..(Len(scanned[1][2]) - 1) :
              scanned[1][2][i].start_time.t >= scanned[1][2][i + 1].start_time.t

(***************************************************************************)
(* storage.py: get_repository_metrics.  A filter is the sequence of its    *)
(* characters.                                                             *)
(***************************************************************************)
\* the most store calls made before a query
MaxStores == 3

\* text LIKE pat in SQLite: % stands for any run of characters, _ for any
\* one character, and letters match whatever their case
RECURSIVE Like(_, _)
Like(pat, text) ==
    IF pat = <<>> THEN text = <<>>
    ELSE IF Head(pat) = "%"
    THEN \E k \in 0..Len(text) : Like(Tail(pat), SubSeq(text, k + 1, Len(text)))
    ELSE IF text = <<>> THEN FALSE
    ELSE IF Head(pat) = "_" \/ Lower(Head(pat)) = Lower(Head(text))
    THEN Like(Tail(pat), Tail(text))
    ELSE FALSE

\* the rows of the SELECT: all of them without a filter (None or ""), else
\* WHERE repository_name LIKE '%' || filter || '%'
SelectedMetrics(d, filter) ==
    IF filter = <<>> THEN d.repository_metrics
    ELSE { r \in d.repository_metrics :
             Like(<<"%">> \o filter \o <<"%">>, Characters[r.repository_name]) }

\* ORDER BY conversation_count DESC: the orders the rows can come in (rows
\* with equal counts in any order)
OrderedDesc(rows) ==
    { q \in [1..Cardinality(rows) -> rows] :
        /\ \A i, j \in DOMAIN q : i # j => q[i] # q[j]
        /\ \A i \in 1..(Len(q) - 1) :
              q[i].conversation_count >= q[i + 1].conversation_count }

\* get_repository_metrics: the dict built from the rows, in insertion order
get_repository_metrics(d, filter) == OrderedDesc(SelectedMetrics(d, filter))

QuerySessions == {"s1", "s2", "s3"}

QueryConversations ==
    { Conversation(sid, path, CHOOSE sh \in Shapes : sh.git_branch = "main") :
        sid \in QuerySessions,
        path \in {<<"repo", "my_repo">>, <<"repo", "my-repo">>, <<"repo", "Foo">>} }

QueryFilters ==
    { <<>>, <<"m", "y", "_", "r", "e", "p", "o">>, <<"f", "o", "o">>,
      <<"m", "y">>, <<"z">> }

\* a committed store_conversation_metrics(c, m) call
StoreCall(c, m) ==
    /\ calls' = calls + 1
    /\ SetDB(Commit(DB, AfterStatements(DB, c, m, Statements(m))))
    /\ lastOutcome' = "ok"
    /\ lastCall' = <<c, m>>
    /\ UNCHANGED <<lastStored, repeated, dirty, fresh, freshRepo, nStored, errSum>>
    /\ UNCHANGED <<concVars, parseVars, scanVars, runVars, detVars>>

QueryStore ==
    /\ calls < MaxStores
    /\ \E c \in QueryConversations : StoreCall(c, <<>>)
    /\ UNCHANGED answer

\* one call of get_repository_metrics(filter)
Query ==
    /\ \E f \in QueryFilters : \E q \in get_repository_metrics(DB, f) :
          answer' = <<[filter |-> f, rows |-> q, of |-> repository_metrics]>>
    /\ answer' # answer
    /\ UNCHANGED <<storeVars, histVars, concVars, parseVars, scanVars, runVars, detVars>>

NextQuery == QueryStore \/ Query

SpecQuery == Init /\ [][NextQuery]_vars

\* C23: get_repository_metrics(filter) returns exactly the rows of
\* repository_metrics whose repository_name contains the filter as a
\* substring (all rows without a filter), each once, in descending order of
\* conversation_count.
C23_QueryBySubstring ==
    answer # <<>> =>
        LET a == answer[1]
        IN  /\ {a.rows[i] : i \in DOMAIN a.rows} =
                  { r \in a.of : Substring(a.filter, Characters[r.repository_name]) }
            /\ \A i, j \in DOMAIN a.rows : i # j => a.rows[i] # a.rows[j]
            /\ \A i \in 1..(Len(a.rows) - 1) :
                  a.rows[i].conversation_count >= a.rows[i + 1].conversation_count

(***************************************************************************)
(* Properties of the assembled conversation (SpecParse)                    *)
(***************************************************************************)
\* the lines of the file that yield a message, in file order
MessageLines == SelectSeq(file, ValidLine)

\* the first of them that carries a working directory / a branch, or 0
FirstWithCwd ==
    IF \A i \in DOMAIN MessageLines : MessageLines[i].cwd = NoPath THEN 0
    ELSE CHOOSE i \in DOMAIN MessageLines :
            /\ MessageLines[i].cwd # NoPath
            /\ \A j \in 1..(i - 1) : MessageLines[j].cwd = NoPath

FirstWithBranch ==
    IF \A i \in DOMAIN MessageLines : MessageLines[i].gitBranch = NoBranch THEN 0
    ELSE CHOOSE i \in DOMAIN MessageLines :
            /\ MessageLines[i].gitBranch # NoBranch
            /\ \A j \in 1..(i - 1) : MessageLines[j].gitBranch = NoBranch

\* C25: in the Conversation assembled from a file, session_id is that of the
\* first message, repository_path the cwd of the first message in file order
\* that has one (none if no message has), the branch the first branch in
\* file order, and repository_name the last component of repository_path,
\* or "unknown" without a repository_path.
C25_MetadataDerivation ==
    pstate = "assembled" =>
        /\ conv[1].session_id = MessageLines[1].sessionId
        /\ conv[1].repository_path =
              (IF FirstWithCwd = 0 THEN NoPath ELSE MessageLines[FirstWithCwd].cwd)
        /\ conv[1].git_branch =
              (IF FirstWithBranch = 0 THEN NoBranch
               ELSE MessageLines[FirstWithBranch].gitBranch)
        /\ repository_name(conv[1]) =
              (IF FirstWithCwd = 0 THEN "unknown"
               ELSE MessageLines[FirstWithCwd].cwd[Len(MessageLines[FirstWithCwd].cwd)])

\* a conversation was assembled from two messages of different sessions,
\* working directories and branches
C25_Witness ==
    /\ pstate = "assembled"
    /\ Len(MessageLines) = 2
    /\ MessageLines[1].sessionId # MessageLines[2].sessionId
    /\ MessageLines[1].cwd # NoPath
    /\ MessageLines[2].cwd # NoPath
    /\ MessageLines[1].cwd # MessageLines[2].cwd
    /\ MessageLines[1].gitBranch # MessageLines[2].gitBranch
    /\ repository_name(conv[1]) = "foo"

\* file k assembles into a conversation that is inside the time window
InWindow(k) ==
    /\ Assembled(k)[1] = "conversation"
    /\ Cutoff # <<>> => Assembled(k)[2].start_time.t >= Cutoff[1].t

\* C26: the scan returns exactly the assembled conversations inside the time
\* window whose repository_path contains the repository filter as a
\* substring: with a filter a conversation without a repository_path is
\* dropped, and without a filter none is dropped for its repository.
C26_RepositoryPostFilter ==
    (scanned # <<>> /\ exists) =>
        /\ scanned[1][1] = "return"
        /\ \A k \in DOMAIN root :
              InWindow(k) =>
                  (Returned(Assembled(k)[2])
                      <=> \/ repository_filter = NoFilter
                          \/ Substring(repository_filter,
                                       PathText(Assembled(k)[2].repository_path)))
        /\ \A i \in DOMAIN scanned[1][2] :
              \E k \in DOMAIN root : InWindow(k) /\ Assembled(k)[2] = scanned[1][2][i]

(***************************************************************************)
(* cli.py: the scan command as a whole: scan_conversations on the projects *)
(* directory, then the loop and record_scan.  The store may hold the rows  *)
(* of an earlier run.  A ScanRecord holds the two counts; scan_start and   *)
(* scan_end are left out.                                                  *)
(***************************************************************************)
\* a conversation as store_conversation_metrics writes it: the datetimes as
\* column values
Stored(c) ==
    [session_id |-> c.session_id, repository_path |-> c.repository_path,
     git_branch |-> c.git_branch, start_time |-> c.start_time.t,
     end_time |-> c.end_time.t, message_count |-> c.message_count]

CommandFiles ==
    { OneLine("s1", Naive(Now - 10), NoPath),
      OneLine("s2", Naive(Now - 1), <<"repo", "bar">>),
      OneLine("s2", Aware(Now - 1), <<"repo", "foo">>),
      OneLine("s1", Naive(Now - 2), <<"repo", "foobar">>),
      LogFile(<<GarbageLine>>) }

CommandSince == { <<"7", "d">>, <<>> }

\* the store before the command: empty, or as an earlier run left it
EarlierRun ==
    [db |-> AfterStatements(EmptyDB,
                            Stored(Assemble(ReadLines(
                                OneLine("s1", Naive(Now - 20), <<"repo", "foo">>).lines,
                                0, <<>>, Now)[2])[2]),
                            <<MatchOrder[2]>>, Statements(<<MatchOrder[2]>>)),
     history |-> <<[conversations_processed |-> 1, repositories_found |-> 1]>>]

StoreInputs == { [db |-> EmptyDB, history |-> <<>>], EarlierRun }

InitCommand ==
    /\ InitHist /\ InitConc /\ InitNoFile /\ InitNoDetect /\ InitNoQuery
    /\ \E st \in StoreInputs :
          /\ conversations = st.db.conversations
          /\ patterns = st.db.patterns
          /\ repository_metrics = st.db.repository_metrics
          /\ scan_history = st.history
    /\ root \in UNION { [1..n -> CommandFiles] : n \in 0..MaxFiles }
    /\ exists \in BOOLEAN
    /\ exists \/ root = <<>>
    /\ since \in CommandSince
    /\ repository_filter \in FilterInputs
    /\ scanned = <<>>
    /\ run = <<>>
    /\ ridx = 0
    /\ processed = 0
    /\ repositories = {}
    /\ outcomes = <<>>
    /\ rstate = "scan"

\* conversations = scanner.scan_conversations(...); an exception ends the
\* command in `except Exception: ... sys.exit(1)`
CommandScan ==
    /\ rstate = "scan"
    /\ \E r \in {scan_conversations(root, exists, since, repository_filter, Now)} :
          /\ scanned' = <<r>>
          /\ run' = IF r[1] = "return"
                    THEN [i \in DOMAIN r[2] |-> Stored(r[2][i])]
                    ELSE <<>>
          /\ rstate' = IF r[1] = "return" THEN "loop" ELSE "error"
    /\ UNCHANGED <<root, exists, since, repository_filter>>
    /\ UNCHANGED <<ridx, processed, repositories, outcomes, scan_history>>
    /\ UNCHANGED <<storeVars, histVars, concVars, parseVars, detVars, queryVars>>

\* record_scan raises: the command ends in `except Exception: ... sys.exit(1)`
RunRecordFails ==
    /\ rstate = "loop"
    /\ run # <<>>
    /\ ridx = Len(run)
    /\ rstate' = "error"
    /\ UNCHANGED <<run, ridx, processed, repositories, outcomes, scan_history>>
    /\ UNCHANGED <<storeVars, histVars, concVars, parseVars, scanVars, detVars, queryVars>>

NextCommand ==
    \/ CommandScan
    \/ RunNothing
    \/ RunDetectFails
    \/ RunStoreFails
    \/ RunStoreOk
    \/ RunRecord
    \/ RunRecordFails

SpecCommand == InitCommand /\ [][NextCommand]_vars

(***************************************************************************)
(* Properties of the scan command as a whole (SpecCommand)                 *)
(***************************************************************************)
\* the projects directory is missing, or no file of it yields a conversation
\* that passes the filters
NothingToFind == ~exists \/ \A k \in DOMAIN root : ~Qualifies(k)

\* C24: when the projects directory is missing or no file yields a
\* conversation that passes the filters, scan_conversations returns the
\* empty list, the command goes to its "nothing found" end and to no other,
\* and no step of it changes the conversations, patterns, repository_metrics
\* or scan_history tables.
C24_EmptyScanIsResult ==
    [][(NothingToFind /\ scanned' # <<>>)
          => /\ scanned'[1] = <<"return", <<>>>>
             /\ run' = <<>>
             /\ rstate' \in {"loop", "nothing"}
             /\ rstate = "loop" => rstate' = "nothing"
             /\ conversations' = conversations
             /\ patterns' = patterns
             /\ repository_metrics' = repository_metrics
             /\ scan_history' = scan_history]_vars

\* the command ended with "nothing found" over a store that held rows, in a
\* directory with two log files of which none qualified
C24_Witness ==
    /\ rstate = "nothing"
    /\ exists
    /\ Len(root) = 2
    /\ \E k \in DOMAIN root : Assembled(k)[1] = "conversation"
    /\ conversations # {}
    /\ scan_history # <<>>

\* the conversations of the run that were stored
StoredOk == {outcomes[k].at : k \in {j \in DOMAIN outcomes : outcomes[j].result = "ok"}}

\* C30: scan_history changes only by the one record_scan call of a run that
\* found at least one conversation, made after the store attempt of every
\* conversation of the run: it appends one ScanRecord with the number of
\* conversations stored and the number of their distinct repository names,
\* keeps the earlier records and changes no other table; a run that found
\* no conversation appends none.
C30_AuditAfterStores ==
    [][/\ scan_history' # scan_history =>
            /\ rstate = "loop" /\ rstate' = "done"
            /\ run # <<>>
            /\ \A i \in DOMAIN run : \E k \in DOMAIN outcomes : outcomes[k].at = i
            /\ scan_history' =
                  Append(scan_history,
                         [conversations_processed |-> Cardinality(StoredOk),
                          repositories_found |->
                              Cardinality({repository_name(run[i]) : i \in StoredOk})])
            /\ conversations' = conversations
            /\ patterns' = patterns
            /\ repository_metrics' = repository_metrics
       /\ (rstate' = "done" /\ rstate # "done") =>
            Len(scan_history') = Len(scan_history) + 1
       /\ rstate' = "nothing" => scan_history' = scan_history]_vars

\* a run of two conversations of which one was stored has been recorded
\* after the record of an earlier run
C30_Witness ==
    /\ rstate = "done"
    /\ Len(run) = 2
    /\ Len(scan_history) = 2
    /\ scan_history[2].conversations_processed = 1
    /\ scan_history[2].repositories_found = 1
    /\ \E k \in DOMAIN outcomes : outcomes[k].result = "store" /\ outcomes[k].dirty

(***************************************************************************)
(* storage.py: store_conversation_metrics and record_scan called one after *)
(* the other, each call committed or failed and rolled back.               *)
(***************************************************************************)
\* the most calls made on the store
MaxAudit == 4

AuditConversations ==
    { Conversation(sid, path, CHOOSE sh \in Shapes : sh.git_branch = "main") :
        sid \in Sessions, path \in Paths }

\* record_scan(start, end, processed, repo_count): one INSERT INTO scan_history
record_scan(history, n, repos) ==
    Append(history, [conversations_processed |-> n, repositories_found |-> repos])

AuditStore ==
    /\ calls < MaxAudit
    /\ \E c \in AuditConversations, m \in RunMatches : StoreCall(c, m)
    /\ UNCHANGED answer

\* store_conversation_metrics(c, m) whose k-th statement raises
AuditStoreFails ==
    /\ calls < MaxAudit
    /\ calls' = calls + 1
    /\ \E c \in AuditConversations, m \in RunMatches : \E k \in 1..Statements(m) :
          LET working == AfterStatements(DB, c, m, k - 1)
          IN  /\ SetDB(Rollback(DB, working))
              /\ dirty' = (working # DB)
    /\ lastOutcome' = "failed"
    /\ lastCall' = NoCall
    /\ UNCHANGED <<lastStored, repeated, fresh, freshRepo, nStored, errSum>>
    /\ UNCHANGED <<concVars, parseVars, scanVars, runVars, detVars, queryVars>>

\* a committed record_scan call
AuditRecord ==
    /\ calls < MaxAudit
    /\ calls' = calls + 1
    /\ scan_history' = record_scan(scan_history, Cardinality(conversations),
                                   Cardinality(repository_metrics))
    /\ lastOutcome' = "recorded"
    /\ lastCall' = NoCall
    /\ UNCHANGED <<run, ridx, processed, repositories, outcomes, rstate>>
    /\ UNCHANGED <<lastStored, repeated, dirty, fresh, freshRepo, nStored, errSum>>
    /\ UNCHANGED <<storeVars, concVars, parseVars, scanVars, detVars, queryVars>>

\* a record_scan call whose INSERT raises
AuditRecordFails ==
    /\ calls < MaxAudit
    /\ calls' = calls + 1
    /\ lastOutcome' = "failed"
    /\ lastCall' = NoCall
    /\ dirty' = FALSE
    /\ UNCHANGED <<lastStored, repeated, fresh, freshRepo, nStored, errSum>>
    /\ UNCHANGED <<storeVars, concVars, parseVars, scanVars, runVars, detVars, queryVars>>

NextAudit == AuditStore \/ AuditStoreFails \/ AuditRecord \/ AuditRecordFails

SpecAudit == Init /\ [][NextAudit]_vars

(***************************************************************************)
(* Properties of the store and the audit log (SpecAudit)                   *)
(***************************************************************************)
\* C27: a committed store call for session s with repository_name R leaves
\* the conversation rows and pattern rows of every other session, the
\* repository_metrics rows of every other repository and scan_history as
\* they were.
C27_UpsertFrame ==
    [][(calls' = calls + 1 /\ lastOutcome' = "ok") =>
          LET s == lastCall'[1].session_id
              R == repository_name(lastCall'[1])
          IN  /\ {r \in conversations' : r.session_id # s}
                    = {r \in conversations : r.session_id # s}
              /\ SelectSeq(patterns', LAMBDA r : r.session_id # s)
                    = SelectSeq(patterns, LAMBDA r : r.session_id # s)
              /\ {r \in repository_metrics' : r.repository_name # R}
                    = {r \in repository_metrics : r.repository_name # R}
              /\ scan_history' = scan_history]_vars

\* a session was stored while the store held the conversation, the pattern
\* rows and the rollup of another session of another repository, and a
\* ScanRecord
C27_Witness ==
    /\ lastOutcome = "ok"
    /\ scan_history # <<>>
    /\ Cardinality(conversations) = 2
    /\ Cardinality(repository_metrics) = 2
    /\ \E i \in DOMAIN patterns : patterns[i].session_id # lastCall[1].session_id

\* C28: after every call each repository_name of a stored conversation has
\* a repository_metrics row, each row's conversation_count is at least 1 and
\* at least the number of conversations stored with its name, and no call
\* removes a repository_metrics row.
C28_RollupCoverage ==
    [][/\ \A c \in conversations' :
             \E r \in repository_metrics' : r.repository_name = c.repository_name
       /\ \A r \in repository_metrics' :
             /\ r.conversation_count >= 1
             /\ r.conversation_count >=
                   Cardinality(RepoConversations(DB', r.repository_name))
       /\ \A r \in repository_metrics :
             \E q \in repository_metrics' : q.repository_name = r.repository_name]_vars

\* two conversations are stored under one repository, and another
\* repository keeps a row that counts a conversation it no longer has
C28_Witness ==
    /\ \E r \in repository_metrics :
          /\ r.conversation_count = 2
          /\ Cardinality(RepoConversations(DB, r.repository_name)) = 2
    /\ \E r \in repository_metrics :
          /\ r.conversation_count = 1
          /\ RepoConversations(DB, r.repository_name) = {}

\* C29: whatever store and record_scan calls were made, committed or failed
\* and rolled back, the session_id of every pattern row is the session_id of
\* a conversation row.
C29_MatchesReferToConversations ==
    \A i \in DOMAIN patterns :
        \E c \in conversations : c.session_id = patterns[i].session_id

\* pattern rows of two sessions are stored and a scan is recorded, after a
\* store call failed having changed rows
C29_Witness ==
    /\ Cardinality({patterns[i].session_id : i \in DOMAIN patterns}) = 2
    /\ scan_history # <<>>
    /\ lastOutcome = "failed"
    /\ dirty

====
